---- MODULE Spec2Model ----
(***************************************************************************)
(* ESI Cap'n Proto schema and codec synthesis                              *)
(* (lib/Dialect/ESI/capnp/Schema.cpp).                                     *)
(*                                                                         *)
(* Conventions.                                                            *)
(*  - A hardware type is a record tagged by k: "int" (w, s), "array"       *)
(*    (e, n), "struct" (fs: sequence of FieldInfo), "alias" (name, inner)  *)
(*    and "none" (any type category the TypeSwitches have no case for).    *)
(*  - Text written to a raw_ostream is the sequence of the pieces written  *)
(*    by the successive << calls; a printed type is a sequence of          *)
(*    one-character strings (its bytes).                                   *)
(*  - A uint64_t is a sequence of four 16-bit limbs, least significant     *)
(*    first, so that bit 63 is the top bit of limb 4.                      *)
(*  - A failed assert(...) stops the program at that statement: the        *)
(*    operators return ok |-> FALSE together with what was done so far.    *)
(***************************************************************************)
EXTENDS Integers, Sequences, FiniteSets, TLC

VARIABLES
  schema,       \* Spec: the TypeSchemaImpl object under test (or NoObj)
  ret,          \* Spec: the last call and what it returned
  objs,         \* SpecTypeID: TypeSchemaImpl objects, by object id
  idLog,        \* SpecTypeID: values capnpTypeID() returned, per object
  encImplMods,  \* SpecCache: TypeSchema::encImplMods
  decImplMods,  \* SpecCache: TypeSchema::decImplMods
  topMod,       \* SpecCache: the RTLModuleOps created in the top-level module
  insts,        \* SpecCache: the InstanceOps created at the use sites
  os,           \* SpecCache: schema text written during the last request
  reqLog,       \* SpecCache: one record per request made
  crashed,      \* SpecCache: an assert stopped the program
  codec,        \* SpecCodec: type, operand value, modules and signals
  sim,          \* SpecDecoder: a decoder module, its inputs and assertions
  segment,      \* SpecSegment: a CapnpSegmentBuilder and what was asked of it
  threads,      \* SpecThreads: each thread's position in its request
  gasket        \* SpecSlice, SpecDowncast: a Slice or GasketComponent in use

vars == <<schema, ret, objs, idLog, encImplMods, decImplMods, topMod, insts,
          os, reqLog, crashed, codec, sim, segment, threads,
          gasket>>

-----------------------------------------------------------------------------
(* Bounds of the model.                                                    *)

MaxArrayLen == 2
MaxStructFields == 2
MaxCalls == 2
MaxObjects == 2
MaxRequests == 3
MaxThreads == 2

-----------------------------------------------------------------------------
(* Sequence helpers.                                                       *)

Reverse(s) == [i \in 1..Len(s) |-> s[Len(s) + 1 - i]]

Repeat(x, n) == [i \in 1..n |-> x]

Max(a, b) == IF a >= b THEN a ELSE b

RECURSIVE SeqsUpTo(_, _)
SeqsUpTo(S, n) ==
  IF n = 0 THEN {<<>>}
  ELSE LET shorter == SeqsUpTo(S, n - 1)
       IN  shorter \cup {Append(s, x) : s \in {t \in shorter : Len(t) = n - 1}, x \in S}

-----------------------------------------------------------------------------
(* The hardware type system, as far as the schema code queries it.         *)

IntegerType(w, s) == [k |-> "int", w |-> w, s |-> s]
ArrayType(e, n) == [k |-> "array", e |-> e, n |-> n]
StructType(fs) == [k |-> "struct", fs |-> fs]
TypeAliasType(nm, inner) == [k |-> "alias", name |-> nm, inner |-> inner]
NoneType == [k |-> "none"]
(* A field name is a sequence of one-character strings.                      *)
FieldInfo(nm, t) == [name |-> nm, type |-> t]

Signedness == {"signless", "signed", "unsigned"}

RECURSIVE getCanonicalType(_)
getCanonicalType(type) ==
  IF type.k = "alias" THEN getCanonicalType(type.inner) ELSE type

RECURSIVE getBitWidth(_)
getBitWidth(type) ==
  CASE type.k = "int" -> type.w
    [] type.k = "array" -> type.n * getBitWidth(type.e)
    [] type.k = "struct" ->
         LET RECURSIVE Sum(_)
             Sum(i) == IF i = 0 THEN 0
                       ELSE getBitWidth(type.fs[i].type) + Sum(i - 1)
         IN  Sum(Len(type.fs))
    [] type.k = "alias" -> getBitWidth(type.inner)
    [] OTHER -> -1

-----------------------------------------------------------------------------
(* Printed form of a type (operator<< on a Type): its bytes.               *)

Digit(d) == <<"0", "1", "2", "3", "4", "5", "6", "7", "8", "9">>[d + 1]

RECURSIVE Decimal(_)
Decimal(n) ==
  IF n < 10 THEN <<Digit(n)>> ELSE Append(Decimal(n \div 10), Digit(n % 10))

RECURSIVE PrintType(_)
PrintType(type) ==
  CASE type.k = "int" ->
         (CASE type.s = "signed" -> <<"s", "i">>
            [] type.s = "unsigned" -> <<"u", "i">>
            [] OTHER -> <<"i">>) \o Decimal(type.w)
    [] type.k = "array" ->
         <<"!", "r", "t", "l", ".", "a", "r", "r", "a", "y", "<">>
           \o Decimal(type.n) \o <<"x">> \o PrintType(type.e) \o <<">">>
    [] type.k = "struct" ->
         LET RECURSIVE Fields(_)
             Fields(i) ==
               IF i > Len(type.fs) THEN <<>>
               ELSE (IF i > 1 THEN <<",", " ">> ELSE <<>>)
                      \o type.fs[i].name \o <<":", " ">>
                      \o PrintType(type.fs[i].type) \o Fields(i + 1)
         IN  <<"!", "r", "t", "l", ".", "s", "t", "r", "u", "c", "t", "<">>
               \o Fields(1) \o <<">">>
    [] type.k = "alias" ->
         <<"!", "r", "t", "l", ".", "t", "y", "p", "e", "a", "l", "i", "a",
           "s", "<">> \o type.name \o <<",">> \o PrintType(type.inner) \o <<">">>
    [] OTHER -> <<"n", "o", "n", "e">>

-----------------------------------------------------------------------------
(* uint64_t arithmetic on four 16-bit limbs.                               *)

Limb == 2 ^ 16

U64(n) == <<n % Limb, (n \div Limb) % Limb, 0, 0>>

(* h * m + a modulo 2^64, for small m and a.                               *)
MulAdd64(h, m, a) ==
  LET p1 == h[1] * m + a
      p2 == h[2] * m + (p1 \div Limb)
      p3 == h[3] * m + (p2 \div Limb)
      p4 == h[4] * m + (p3 \div Limb)
  IN  <<p1 % Limb, p2 % Limb, p3 % Limb, p4 % Limb>>

(* x | 0x8000000000000000 *)
OrHighBit(x) == [x EXCEPT ![4] = IF x[4] >= Limb \div 2 THEN x[4] ELSE x[4] + Limb \div 2]

IsZero64(x) == x = <<0, 0, 0, 0>>

(* Quotient and remainder of x by 10, limb by limb from the top.           *)
DivMod10(x) ==
  LET c4 == x[4]
      c3 == (c4 % 10) * Limb + x[3]
      c2 == (c3 % 10) * Limb + x[2]
      c1 == (c2 % 10) * Limb + x[1]
  IN  [q |-> <<c1 \div 10, c2 \div 10, c3 \div 10, c4 \div 10>>, r |-> c1 % 10]

(* raw_ostream << uint64_t *)
RECURSIVE Decimal64(_)
Decimal64(x) ==
  LET d == DivMod10(x)
  IN  IF IsZero64(d.q) THEN <<Digit(d.r)>>
      ELSE Append(Decimal64(d.q), Digit(d.r))

HexDigit(d) ==
  <<"0", "1", "2", "3", "4", "5", "6", "7", "8", "9",
    "a", "b", "c", "d", "e", "f">>[d + 1]

HexLimb(l) ==
  <<HexDigit(l \div 4096), HexDigit((l \div 256) % 16),
    HexDigit((l \div 16) % 16), HexDigit(l % 16)>>

(* llvm::format_hex(id, 18): "0x" and sixteen hexadecimal digits.          *)
FormatHex64(x) ==
  <<"0", "x">> \o HexLimb(x[4]) \o HexLimb(x[3]) \o HexLimb(x[2]) \o HexLimb(x[1])

(* The byte value of a character of the printed forms.                     *)
CharCode(c) ==
  LET lower == <<"a", "b", "c", "d", "e", "f", "g", "h", "i", "j", "k", "l",
                 "m", "n", "o", "p", "q", "r", "s", "t", "u", "v", "w", "x",
                 "y", "z">>
      digits == <<"0", "1", "2", "3", "4", "5", "6", "7", "8", "9">>
      punct == <<" ", "!", ",", ".", ":", "<", ">">>
      pcode == <<32, 33, 44, 46, 58, 60, 62>>
  IN  IF \E i \in 1..26 : lower[i] = c
        THEN 96 + (CHOOSE i \in 1..26 : lower[i] = c)
      ELSE IF \E i \in 1..10 : digits[i] = c
        THEN 47 + (CHOOSE i \in 1..10 : digits[i] = c)
      ELSE IF \E i \in 1..7 : punct[i] = c
        THEN pcode[CHOOSE i \in 1..7 : punct[i] = c]
      ELSE 63

(* llvm::hashing::detail::hash_33to64_bytes(s, len, seed) is LLVM's: a     *)
(* fixed function of the len bytes at s and of the seed.  It is modelled   *)
(* by a function of the same signature and width: two position-weighted    *)
(* byte sums mixed into the seed by multiplications modulo 2^64.           *)
RECURSIVE weightedSum(_, _, _, _)
weightedSum(s, lo, hi, step) ==
  IF lo > hi THEN 0
  ELSE IF lo = hi THEN (CharCode(s[lo]) * (lo * step + 1)) % Limb
  ELSE LET mid == (lo + hi) \div 2
       IN  (weightedSum(s, lo, mid, step) + weightedSum(s, mid + 1, hi, step))
             % Limb

hash_33to64_bytes(s, len, seed) ==
  MulAdd64(MulAdd64(MulAdd64(seed, 31321, weightedSum(s, 1, len, 1)),
                    25173, weightedSum(s, 1, len, 7)),
           13849, len)

-----------------------------------------------------------------------------
(* llvm::Optional                                                          *)

None == [has |-> FALSE]
Some(v) == [has |-> TRUE, v |-> v]

-----------------------------------------------------------------------------
(* TypeSchemaImpl: construction, type ID, support predicate.               *)

(* ESICapnp.h: the schema version, the seed of the type ID hash.           *)
esiCosimSchemaVersion == 1

(* The constructor with its TypeSwitch on the type as given instead of on   *)
(* canonicalType.                                                          *)
TypeSchemaImpl_switchOnType(t) ==
  [type |-> t,
   canonicalType |-> getCanonicalType(t),
   fieldTypes |->
     CASE t.k = "int" -> <<FieldInfo(<<"i">>, t)>>
       [] t.k = "array" -> <<FieldInfo(<<"l">>, t)>>
       [] t.k = "struct" -> t.fs
       [] OTHER -> <<>>,
   cachedID |-> None,
   cachedName |-> <<>>,
   typeSchema |-> None]

TypeSchemaImpl(t) ==
  LET canonicalType == getCanonicalType(t)
  IN  [type |-> t,
       canonicalType |-> canonicalType,
       fieldTypes |->
         CASE canonicalType.k = "int" -> <<FieldInfo(<<"i">>, canonicalType)>>
           [] canonicalType.k = "array" -> <<FieldInfo(<<"l">>, canonicalType)>>
           [] canonicalType.k = "struct" -> canonicalType.fs
           [] OTHER -> <<>>,
       cachedID |-> None,
       cachedName |-> <<>>,
       typeSchema |-> None]

(* The printed type, padded with spaces to a multiple of 64 bytes.         *)
paddedTypeName(type) ==
  LET pad(typeName) ==
        IF Len(typeName) % 64 # 0
          THEN typeName \o Repeat(" ", 64 - (Len(typeName) % 64))
        ELSE typeName
  IN  pad(PrintType(type))

(* for (i = 0, e = length / 64; i < e; ++i) hash = hash_33to64_bytes(...)  *)
RECURSIVE hashBlocks(_, _, _, _)
hashBlocks(typeName, i, e, hash) ==
  IF i >= e THEN hash
  ELSE hashBlocks(typeName, i + 1, e,
         hash_33to64_bytes(SubSeq(typeName, i * 64 + 1, i * 64 + 64), 64, hash))

(* The hash of the padded type name, before the high bit is set.           *)
hashTypeName(type) ==
  LET hash(typeName) ==
        hashBlocks(typeName, 0, Len(typeName) \div 64,
                   U64(esiCosimSchemaVersion))
  IN  hash(paddedTypeName(type))

(* What capnpTypeID() stores in cachedID on a first call.                  *)
computeTypeID(type) == OrHighBit(hashTypeName(type))

(* capnpTypeID() caching the hash itself and setting the high bit only on  *)
(* the value it returns from the first call.                               *)
capnpTypeID_cachesRawHash(self) ==
  IF self.cachedID.has THEN [val |-> self.cachedID.v, self |-> self]
  ELSE LET store(hash) ==
             [val |-> OrHighBit(hash),
              self |-> [self EXCEPT !.cachedID = Some(hash)]]
       IN  store(hashTypeName(self.type))

(* uint64_t TypeSchemaImpl::capnpTypeID() const: the value and the object  *)
(* with its mutable cache updated.                                         *)
capnpTypeID(self) ==
  IF self.cachedID.has THEN [val |-> self.cachedID.v, self |-> self]
  ELSE LET store(id) ==
             [val |-> id, self |-> [self EXCEPT !.cachedID = Some(id)]]
       IN  store(computeTypeID(self.type))

(* isSupported with outer handed on to the element type of an array.       *)
RECURSIVE isSupported_outerKept(_, _)
isSupported_outerKept(type0, outer) ==
  LET type == getCanonicalType(type0)
  IN  CASE type.k = "int" -> type.w <= 64
        [] type.k = "array" -> isSupported_outerKept(type.e, outer)
        [] type.k = "struct" ->
             IF ~outer THEN FALSE
             ELSE \A i \in 1..Len(type.fs) :
                    isSupported_outerKept(type.fs[i].type, FALSE)
        [] OTHER -> FALSE

RECURSIVE isSupported(_, _)
isSupported(type0, outer) ==
  LET type == getCanonicalType(type0)
  IN  CASE type.k = "int" -> type.w <= 64
        [] type.k = "array" -> isSupported(type.e, FALSE)
        [] type.k = "struct" ->
             IF ~outer THEN FALSE
             ELSE \A i \in 1..Len(type.fs) : isSupported(type.fs[i].type, FALSE)
        [] OTHER -> FALSE

TypeSchemaImpl_isSupported(self) == isSupported(self.type, TRUE)

-----------------------------------------------------------------------------
(* Names and schema text.  Every operator that can hit an assert returns   *)
(* ok and the text written up to that point.                               *)

toupper(c) ==
  CASE c = "i" -> "I" [] c = "s" -> "S" [] c = "u" -> "U" [] OTHER -> c

RECURSIVE emitName(_, _)
emitName(type, id) ==
  CASE type.k = "int" ->
         LET intName == PrintType(type)
         IN  [ok |-> TRUE, text |-> <<toupper(intName[1])>> \o Tail(intName)]
    [] type.k = "array" ->
         LET elem == emitName(type.e, U64(0))
         IN  [ok |-> elem.ok,
              text |-> <<"ArrayOf">> \o Decimal(type.n) \o <<"x">> \o elem.text]
    [] type.k = "struct" ->
         [ok |-> TRUE, text |-> <<"Struct">> \o Decimal64(id)]
    [] type.k = "alias" -> [ok |-> TRUE, text |-> type.name]
    [] OTHER -> [ok |-> FALSE, text |-> <<>>]

(* StringRef TypeSchemaImpl::name() const *)
name(self) ==
  IF self.cachedName # <<>>
    THEN [ok |-> TRUE, val |-> self.cachedName, self |-> self]
  ELSE LET store(id, nm) ==
             [ok |-> nm.ok, val |-> nm.text,
              self |-> [id.self EXCEPT !.cachedName = nm.text]]
           named(id) == store(id, emitName(self.type, id.val))
       IN  named(capnpTypeID(self))

(* emitId(os, id): "@" and the hexadecimal form.                           *)
emitId(id) == <<"@">> \o FormatHex64(id)

(* The width suffix emitCapnpType writes after "Int" / "UInt".             *)
(* The rounding with strict comparisons.                                   *)
roundUpWidth_strict(w) ==
  IF w < 8 THEN [ok |-> TRUE, text |-> <<"8">>]
  ELSE IF w < 16 THEN [ok |-> TRUE, text |-> <<"16">>]
  ELSE IF w < 32 THEN [ok |-> TRUE, text |-> <<"32">>]
  ELSE IF w < 64 THEN [ok |-> TRUE, text |-> <<"64">>]
  ELSE [ok |-> FALSE, text |-> <<>>]

roundUpWidth(w) ==
  IF w <= 8 THEN [ok |-> TRUE, text |-> <<"8">>]
  ELSE IF w <= 16 THEN [ok |-> TRUE, text |-> <<"16">>]
  ELSE IF w <= 32 THEN [ok |-> TRUE, text |-> <<"32">>]
  ELSE IF w <= 64 THEN [ok |-> TRUE, text |-> <<"64">>]
  ELSE [ok |-> FALSE, text |-> <<>>]

emitCapnpInt(intTy) ==
  LET w == intTy.w
  IN  IF w = 0 THEN [ok |-> TRUE, text |-> <<"Void">>]
      ELSE IF w = 1 THEN [ok |-> TRUE, text |-> <<"Bool">>]
      ELSE LET sign == IF intTy.s = "signed" THEN <<"Int">> ELSE <<"UInt">>
               width == roundUpWidth(w)
           IN  [ok |-> width.ok, text |-> sign \o width.text]

RECURSIVE emitCapnpType(_)
emitCapnpType(type0) ==
  LET type == getCanonicalType(type0)
  IN  CASE type.k = "int" -> emitCapnpInt(type)
        [] type.k = "array" ->
             LET elem == emitCapnpType(type.e)
             IN  IF elem.ok
                   THEN [ok |-> TRUE, text |-> <<"List(">> \o elem.text \o <<")">>]
                 ELSE [ok |-> FALSE, text |-> <<"List(">> \o elem.text]
        [] OTHER -> [ok |-> FALSE, text |-> <<>>]

(* The field head with a pre-incremented counter (ordinals from 1).        *)
writeFieldHead_preIncrement(field, counter, maxNameLength) ==
  LET ct == emitCapnpType(field.type)
  IN  [ok |-> ct.ok,
       text |-> Repeat(" ", 2) \o field.name
                  \o Repeat(" ", maxNameLength - Len(field.name))
                  \o <<" @">> \o Decimal(counter + 1) \o <<" :">> \o ct.text]

(* One pass of write()'s field loop up to and including emitCapnpType:     *)
(* indent, name, padding, ordinal counter, type.                           *)
writeFieldHead(field, counter, maxNameLength) ==
  LET ct == emitCapnpType(field.type)
  IN  [ok |-> ct.ok,
       text |-> Repeat(" ", 2) \o field.name
                  \o Repeat(" ", maxNameLength - Len(field.name))
                  \o <<" @">> \o Decimal(counter) \o <<" :">> \o ct.text]

RECURSIVE writeFields(_, _, _)
writeFields(fieldTypes, counter, maxNameLength) ==
  IF counter >= Len(fieldTypes) THEN [ok |-> TRUE, text |-> <<>>]
  ELSE LET field == fieldTypes[counter + 1]
           head == writeFieldHead(field, counter, maxNameLength)
       IN  IF ~head.ok THEN head
           ELSE LET rest == writeFields(fieldTypes, counter + 1, maxNameLength)
                IN  [ok |-> rest.ok,
                     text |-> head.text \o <<";  # Actual type is ">>
                                \o PrintType(field.type) \o <<".\n">>
                                \o rest.text]

RECURSIVE maxNameLengthOf(_)
maxNameLengthOf(fieldTypes) ==
  IF fieldTypes = <<>> THEN 0
  ELSE Max(Len(Head(fieldTypes).name), maxNameLengthOf(Tail(fieldTypes)))

(* LogicalResult TypeSchemaImpl::write(raw_ostream &) const, with          *)
(* writeMetadata: the text written, whether it ran to the end, and the     *)
(* object with its caches updated.                                         *)
write(self) ==
  LET body(nm, id, fields) ==
        IF ~nm.ok THEN [ok |-> FALSE, text |-> <<"struct ">>, self |-> nm.self]
        ELSE LET head == <<"struct ">> \o nm.val \o <<" ">> \o emitId(id.val)
                           \o <<" {\n">>
             IN  IF ~fields.ok
                   THEN [ok |-> FALSE, text |-> head \o fields.text,
                         self |-> id.self]
                 ELSE [ok |-> TRUE,
                       text |-> head \o fields.text \o <<"}\n\n">>,
                       self |-> id.self]
      named(nm) ==
        body(nm, capnpTypeID(nm.self),
             writeFields(self.fieldTypes, 0, maxNameLengthOf(self.fieldTypes)))
  IN  named(name(self))

-----------------------------------------------------------------------------
(* The Cap'n Proto schema compiler (capnp::SchemaParser), which is not     *)
(* part of this code base: it parses the text write() produced and lays    *)
(* the struct out.  Fields are laid out in ordinal order; a data field     *)
(* takes the hole of its size if there is one, else a fresh word; every    *)
(* pointer field takes the next pointer slot.                              *)

CapnpType(which) == [which |-> which]
CapnpList(elementType) == [which |-> "LIST", elementType |-> elementType]

RECURSIVE parseCapnpType(_)
parseCapnpType(text) ==
  IF text = <<"Void">> THEN CapnpType("VOID")
  ELSE IF text = <<"Bool">> THEN CapnpType("BOOL")
  ELSE IF text = <<"UInt", "8">> THEN CapnpType("UINT8")
  ELSE IF text = <<"UInt", "16">> THEN CapnpType("UINT16")
  ELSE IF text = <<"UInt", "32">> THEN CapnpType("UINT32")
  ELSE IF text = <<"UInt", "64">> THEN CapnpType("UINT64")
  ELSE IF text = <<"Int", "8">> THEN CapnpType("INT8")
  ELSE IF text = <<"Int", "16">> THEN CapnpType("INT16")
  ELSE IF text = <<"Int", "32">> THEN CapnpType("INT32")
  ELSE IF text = <<"Int", "64">> THEN CapnpType("INT64")
  ELSE IF Len(text) >= 3 /\ text[1] = "List(" /\ text[Len(text)] = ")"
    THEN CapnpList(parseCapnpType(SubSeq(text, 2, Len(text) - 1)))
  ELSE CapnpType("ERROR")

RECURSIVE capnpTypeOk(_)
capnpTypeOk(ct) ==
  IF ct.which = "LIST" THEN capnpTypeOk(ct.elementType) ELSE ct.which # "ERROR"

(* The first index >= from at which piece occurs in text, or 0.            *)
indexOf(text, piece, from) ==
  LET hits == {i \in from..Len(text) : text[i] = piece}
  IN  IF hits = {} THEN 0 ELSE CHOOSE i \in hits : \A j \in hits : i <= j

RECURSIVE parseDecimal(_)
parseDecimal(digits) ==
  IF digits = <<>> THEN 0
  ELSE parseDecimal(SubSeq(digits, 1, Len(digits) - 1)) * 10
         + (CharCode(digits[Len(digits)]) - 48)

(* The field declarations from position pos on, in textual (code) order.   *)
RECURSIVE parseFields(_, _, _)
parseFields(text, pos, codeOrder) ==
  LET at == indexOf(text, " @", pos)
      colon == IF at = 0 THEN 0 ELSE indexOf(text, " :", at)
      semi == IF colon = 0 THEN 0 ELSE indexOf(text, ";  # Actual type is ", colon)
      eol == IF semi = 0 THEN 0 ELSE indexOf(text, ".\n", semi)
  IN  IF eol = 0 THEN <<>>
      ELSE <<[name |-> SelectSeq(SubSeq(text, pos, at - 1), LAMBDA c : c # " "),
              codeOrder |-> codeOrder,
              ordinal |-> parseDecimal(SubSeq(text, at + 1, colon - 1)),
              type |-> parseCapnpType(SubSeq(text, colon + 1, semi - 1))]>>
             \o parseFields(text, eol + 1, codeOrder + 1)

lgSizeOf(ct) ==
  CASE ct.which = "BOOL" -> 0
    [] ct.which \in {"UINT8", "INT8"} -> 3
    [] ct.which \in {"UINT16", "INT16"} -> 4
    [] ct.which \in {"UINT32", "INT32"} -> 5
    [] OTHER -> 6

NoHoles == [lg \in 0..5 |-> 0]

(* HoleSet::tryAllocate *)
RECURSIVE tryAllocate(_, _)
tryAllocate(holes, lgSize) ==
  IF lgSize >= 6 THEN [found |-> FALSE, holes |-> holes, offset |-> 0]
  ELSE IF holes[lgSize] # 0
    THEN [found |-> TRUE, holes |-> [holes EXCEPT ![lgSize] = 0],
          offset |-> holes[lgSize]]
  ELSE LET next == tryAllocate(holes, lgSize + 1)
       IN  IF ~next.found THEN next
           ELSE [found |-> TRUE,
                 holes |-> [next.holes EXCEPT ![lgSize] = next.offset * 2 + 1],
                 offset |-> next.offset * 2]

(* HoleSet::addHolesAtEnd *)
RECURSIVE addHolesAtEnd(_, _, _)
addHolesAtEnd(holes, lgSize, offset) ==
  IF lgSize >= 6 THEN holes
  ELSE addHolesAtEnd([holes EXCEPT ![lgSize] = offset], lgSize + 1,
                     (offset + 1) \div 2)

(* One field added to the layout lay, which holds dataWordCount,           *)
(* pointerCount, holes and the slot offset of each code order.             *)
layoutField(lay, field) ==
  LET ct == field.type
      idx == field.codeOrder + 1
  IN  IF ct.which = "VOID" THEN [lay EXCEPT !.offset[idx] = 0]
      ELSE IF ct.which = "LIST"
        THEN [lay EXCEPT !.offset[idx] = lay.pointerCount,
                         !.pointerCount = lay.pointerCount + 1]
      ELSE LET lg == lgSizeOf(ct)
               hole == tryAllocate(lay.holes, lg)
           IN  IF hole.found
                 THEN [lay EXCEPT !.offset[idx] = hole.offset,
                                  !.holes = hole.holes]
               ELSE LET offset == lay.dataWordCount * (2 ^ (6 - lg))
                    IN  [lay EXCEPT !.offset[idx] = offset,
                                    !.dataWordCount = lay.dataWordCount + 1,
                                    !.holes = addHolesAtEnd(lay.holes, lg,
                                                            offset + 1)]

RECURSIVE layoutFrom(_, _, _)
layoutFrom(lay, fields, ordinal) ==
  IF ordinal >= Len(fields) THEN lay
  ELSE LET field == CHOOSE f \in {fields[i] : i \in 1..Len(fields)} :
                      f.ordinal = ordinal
       IN  layoutFrom(layoutField(lay, field), fields, ordinal + 1)

(* The struct node of the compiled schema: its id as written, and per      *)
(* field (in code order) the name, capnp type and slot offset; ok is       *)
(* FALSE when the text does not compile.                                   *)
compileSchema(text) ==
  LET at == indexOf(text, "@", 1)
      open == indexOf(text, " {\n", 1)
      close == indexOf(text, "}\n\n", 1)
      node(fields, n, lay) ==
        IF ~(/\ at # 0 /\ open > at /\ close > open
             /\ \A i \in 1..n : capnpTypeOk(fields[i].type)
             /\ {fields[i].ordinal : i \in 1..n} = 0..(n - 1))
          THEN [ok |-> FALSE]
        ELSE [ok |-> TRUE,
              id |-> SubSeq(text, at + 1, open - 1),
              dataWordCount |-> lay.dataWordCount,
              pointerCount |-> lay.pointerCount,
              fields |-> [i \in 1..n |->
                            [name |-> fields[i].name,
                             codeOrder |-> fields[i].codeOrder,
                             type |-> fields[i].type,
                             offset |-> lay.offset[i]]]]
      parsed(fields) ==
        node(fields, Len(fields),
             layoutFrom([dataWordCount |-> 0, pointerCount |-> 0,
                         holes |-> NoHoles,
                         offset |-> [i \in 1..Len(fields) |-> 0]],
                        fields, 0))
  IN  parsed(IF open = 0 THEN <<>> ELSE parseFields(text, open + 1, 0))

-----------------------------------------------------------------------------
(* Layout queries and the message size.                                    *)

bitsEncoding(type) ==
  CASE type.which = "VOID" -> 0
    [] type.which = "BOOL" -> 1
    [] type.which \in {"UINT8", "INT8"} -> 2
    [] type.which \in {"UINT16", "INT16"} -> 3
    [] type.which \in {"UINT32", "INT32"} -> 4
    [] type.which \in {"UINT64", "INT64"} -> 5
    [] type.which \in {"ANY_POINTER", "DATA", "INTERFACE", "LIST", "STRUCT",
                       "TEXT"} -> 6

bits(type) ==
  LET enc == bitsEncoding(type)
  IN  IF enc <= 1 THEN enc
      ELSE IF enc = 6 THEN 64
      ELSE 2 ^ (enc + 1)

(* An isPointerType that sends every field to the data section.            *)
isPointerType_never(type) == FALSE

isPointerType(type) ==
  type.which \in {"ANY_POINTER", "DATA", "INTERFACE", "LIST", "STRUCT", "TEXT"}

divideCeil(a, b) == (a + b - 1) \div b

(* static int64_t size(rtl::ArrayType, capnp::schema::Field::Reader)       *)
listSize(mType, cField) ==
  IF cField.type.which # "LIST" THEN [ok |-> FALSE, val |-> 0]
  ELSE LET elementBits == bits(cField.type.elementType)
           listBits == mType.n * elementBits
       IN  [ok |-> TRUE, val |-> divideCeil(listBits, 64)]

(* The loop of size(Struct::Reader, ArrayRef<FieldInfo>) from field i on.  *)
RECURSIVE pointedToSizes(_, _, _)
pointedToSizes(cFields, mFields, i) ==
  IF i > Len(cFields) THEN [ok |-> TRUE, val |-> 0]
  ELSE LET cField == cFields[i]
           mType == IF cField.codeOrder < Len(mFields)
                      THEN mFields[cField.codeOrder + 1].type ELSE NoneType
           pointedToSize ==
             CASE mType.k = "int" -> [ok |-> TRUE, val |-> 0]
               [] mType.k = "array" -> listSize(mType, cField)
               [] OTHER -> [ok |-> FALSE, val |-> 0]
           rest == pointedToSizes(cFields, mFields, i + 1)
       IN  IF ~pointedToSize.ok THEN pointedToSize
           ELSE [ok |-> rest.ok, val |-> pointedToSize.val + rest.val]

(* A struct size that leaves out the word of the root pointer.             *)
structSize_noHeader(cStruct, mFields) ==
  LET pointedTo == pointedToSizes(cStruct.fields, mFields, 1)
  IN  [ok |-> pointedTo.ok,
       val |-> cStruct.dataWordCount + cStruct.pointerCount + pointedTo.val]

(* static int64_t size(Struct::Reader, ArrayRef<FieldInfo>), in words.     *)
structSize(cStruct, mFields) ==
  LET pointedTo == pointedToSizes(cStruct.fields, mFields, 1)
  IN  [ok |-> pointedTo.ok,
       val |-> 1 + cStruct.dataWordCount + cStruct.pointerCount + pointedTo.val]

(* getSchema() and getTypeSchema(): write the schema text behind the file  *)
(* id line, compile it and find the node with this type's id; the result   *)
(* is kept in the object (rootSchema, typeSchema).  text is what write()   *)
(* put on the stream during this call.                                     *)
getTypeSchema(self) ==
  LET find(w, id, rootSchema) ==
        IF ~w.ok THEN [ok |-> FALSE, text |-> w.text, self |-> w.self]
        ELSE IF ~rootSchema.ok \/ rootSchema.id # FormatHex64(id.val)
          THEN [ok |-> FALSE, text |-> w.text, self |-> id.self]
        ELSE [ok |-> TRUE, text |-> w.text,
              self |-> [id.self EXCEPT !.typeSchema = Some(rootSchema)],
              typeSchema |-> rootSchema]
      written(w) == find(w, capnpTypeID(w.self), compileSchema(w.text))
  IN  IF self.typeSchema.has
        THEN [ok |-> TRUE, text |-> <<>>, self |-> self,
              typeSchema |-> self.typeSchema.v]
      ELSE written(write(self))

(* size_t TypeSchemaImpl::size() const, in bits.                           *)
TypeSchemaImpl_size(self) ==
  LET inBits(schema_, words) ==
        IF ~schema_.ok THEN [ok |-> FALSE, val |-> 0, text |-> schema_.text,
                             self |-> schema_.self]
        ELSE [ok |-> words.ok, val |-> words.val * 64, text |-> schema_.text,
              self |-> schema_.self]
      sized(schema_) ==
        inBits(schema_, structSize(schema_.typeSchema, self.fieldTypes))
  IN  sized(getTypeSchema(self))

-----------------------------------------------------------------------------
(* Hardware values.  A Value of a generated module is modelled by its type *)
(* and by the bits it carries for the operand driven into the module,      *)
(* least significant first: a bit is 0, 1 or 2, where 2 is SystemVerilog's *)
(* X (a packed-array read outside the array).  Packed layout: element 0 of *)
(* an array and bit 0 of an integer are the least significant; the first   *)
(* field of a struct is the most significant.                              *)

SignlessInteger(w) == IntegerType(w, "signless")

(* The constants the generated modules hold are below 2^30.                *)
ToBits(value, width) ==
  [i \in 1..width |-> IF i > 30 THEN 0 ELSE (value \div (2 ^ (i - 1))) % 2]

RECURSIVE FromBits(_)
FromBits(bs) ==
  IF bs = <<>> THEN 0 ELSE Head(bs) + 2 * FromBits(Tail(bs))

(* Value: a result of an operation, its type and the bits it carries.      *)
Value(type, bs) == [type |-> type, bits |-> bs]

(* The bits of the operands of a concatenation whose first operand is the  *)
(* most significant.                                                       *)
RECURSIVE bitsOfOperands(_)
bitsOfOperands(values) ==
  IF values = <<>> THEN <<>>
  ELSE bitsOfOperands(Tail(values)) \o Head(values).bits

(* rtl and comb operations, as ExportVerilog emits them.                   *)
ConstantOp(type, value) == Value(type, ToBits(value, type.w))

BitcastOp(type, input) == Value(type, input.bits)

ArrayGetOp(input, idx) ==
  LET w == getBitWidth(input.type.e)
  IN  Value(input.type.e, SubSeq(input.bits, idx * w + 1, (idx + 1) * w))

ArraySliceOp(dstTy, input, lowIndex) ==
  LET w == getBitWidth(dstTy.e)
  IN  Value(dstTy,
            [k \in 1..(dstTy.n * w) |->
               IF lowIndex * w + k <= Len(input.bits)
                 THEN input.bits[lowIndex * w + k] ELSE 2])

ArrayCreateOp(values) ==
  Value(ArrayType(values[1].type, Len(values)), bitsOfOperands(values))

RECURSIVE sumOfSizes(_)
sumOfSizes(values) ==
  IF values = <<>> THEN 0 ELSE Head(values).type.n + sumOfSizes(Tail(values))

ArrayConcatOp(values) ==
  Value(ArrayType(values[1].type.e, sumOfSizes(values)), bitsOfOperands(values))

(* A struct_create that takes its operands last field first.               *)
StructCreateOp_reversed(type, values) ==
  Value(type, bitsOfOperands(Reverse(values)))

StructCreateOp(type, values) == Value(type, bitsOfOperands(values))

RECURSIVE widthOfFields(_, _)
widthOfFields(fs, from) ==
  IF from > Len(fs) THEN 0
  ELSE getBitWidth(fs[from].type) + widthOfFields(fs, from + 1)

(* The field with (1-based) index idx of a struct value.                   *)
StructExtractOp(input, idx) ==
  LET fs == getCanonicalType(input.type).fs
      low == widthOfFields(fs, idx + 1)
  IN  Value(fs[idx].type,
            SubSeq(input.bits, low + 1, low + getBitWidth(fs[idx].type)))

ExtractOp(type, input, lowBit) ==
  Value(type, SubSeq(input.bits, lowBit + 1, lowBit + type.w))

ConcatOp(high, low) ==
  Value(SignlessInteger(high.type.w + low.type.w), low.bits \o high.bits)

(* comb.add on two integers of one width.                                  *)
AddOp(lhs, rhs) ==
  Value(lhs.type,
        ToBits((FromBits(lhs.bits) + FromBits(rhs.bits)) % (2 ^ lhs.type.w),
               lhs.type.w))

-----------------------------------------------------------------------------
(* GasketBuilder, GasketComponent and Slice.  A GasketComponent is its     *)
(* Value; a Slice adds its parent slice and its offset into the parent.    *)

(* ceil(log2(n)), the width of an index into n elements.                   *)
RECURSIVE Log2_64_Ceil(_)
Log2_64_Ceil(n) == IF n <= 1 THEN 0 ELSE 1 + Log2_64_Ceil((n + 1) \div 2)

constant(width, value) == ConstantOp(SignlessInteger(width), value)

zero(width) == ConstantOp(SignlessInteger(width), 0)

castBitArray(gc) ==
  LET dstTy == ArrayType(SignlessInteger(1), getBitWidth(gc.type))
  IN  IF gc.type = dstTy THEN Value(gc.type, gc.bits) ELSE BitcastOp(dstTy, gc)

padding(p) == castBitArray(zero(p))

cast(gc, t) == BitcastOp(t, gc)

(* A concat that hands the values to ArrayConcatOp in the order given.     *)
concat_unreversed(concatValues) ==
  ArrayConcatOp([i \in 1..Len(concatValues) |->
                   castBitArray(concatValues[i])])

(* GasketComponent::concat: the values as bit arrays, reversed, handed to  *)
(* ArrayConcatOp.                                                          *)
concat(concatValues) ==
  ArrayConcatOp(Reverse([i \in 1..Len(concatValues) |->
                           castBitArray(concatValues[i])]))

(* A downcast to a signed type that keeps the sign bit of the source.      *)
downcast_signFromTop(gc, t) ==
  LET signlessVal ==
        IF gc.type.s # "signless"
          THEN BitcastOp(SignlessInteger(gc.type.w), gc) ELSE gc
  IN  IF t.s # "signed" THEN cast(ExtractOp(t, signlessVal, 0), t)
      ELSE cast(ConcatOp(ExtractOp(SignlessInteger(1), signlessVal,
                                   gc.type.w - 1),
                         ExtractOp(SignlessInteger(t.w - 1), signlessVal, 0)),
                t)

(* GasketComponent::downcast(IntegerType t)                                *)
downcast(gc, t) ==
  LET signlessVal ==
        IF gc.type.s # "signless"
          THEN BitcastOp(SignlessInteger(gc.type.w), gc) ELSE gc
  IN  IF t.s # "signed" THEN cast(ExtractOp(t, signlessVal, 0), t)
      ELSE cast(ConcatOp(ExtractOp(SignlessInteger(1), signlessVal, t.w - 1),
                         ExtractOp(SignlessInteger(t.w - 1), signlessVal, 0)),
                t)

NoParent == [root |-> TRUE]

(* Slice(OpBuilder &, Value) and Slice(GasketComponent): a root slice.     *)
Slice(val) ==
  [type |-> val.type, bits |-> val.bits, parent |-> NoParent,
   offsetIntoParent |-> Some(0)]

(* Slice::slice(int64_t lsb, int64_t size)                                 *)
slice(self, lsb, size) ==
  LET idxTy == SignlessInteger(Log2_64_Ceil(self.type.n))
      lsbConst == ConstantOp(idxTy, lsb)
      newSlice == ArraySliceOp(ArrayType(self.type.e, size), self,
                               FromBits(lsbConst.bits))
  IN  [type |-> newSlice.type, bits |-> newSlice.bits, parent |-> self,
       offsetIntoParent |-> Some(lsb)]

(* Slice::operator[](size_t idx)                                           *)
Slice_at(self, idx) ==
  LET idxTy == SignlessInteger(Log2_64_Ceil(self.type.n))
      idxVal == ConstantOp(idxTy, idx)
  IN  ArrayGetOp(self, FromBits(idxVal.bits))

(* Slice::slice(Value lsb, int64_t size): ok is FALSE when the assert on   *)
(* the width of lsb fails.                                                 *)
sliceAtValue(self, lsb, size) ==
  LET expIdxWidth == Log2_64_Ceil(self.type.n)
      idx == IF lsb.type.w > expIdxWidth
               THEN ExtractOp(SignlessInteger(expIdxWidth), lsb, 0) ELSE lsb
      newSlice == ArraySliceOp(ArrayType(self.type.e, size), self,
                               FromBits(idx.bits))
  IN  [ok |-> lsb.type.w >= expIdxWidth,
       type |-> newSlice.type, bits |-> newSlice.bits, parent |-> self,
       offsetIntoParent |-> None]

castToSlice(self, elemTy, size) == Slice(cast(self, ArrayType(elemTy, size)))

RECURSIVE getRootSlice(_)
getRootSlice(self) ==
  IF self.parent = NoParent THEN self ELSE getRootSlice(self.parent)

(* A getOffsetFromRoot that counts an unknown offset as 0.                 *)
RECURSIVE getOffsetFromRoot_ignoresDynamic(_)
getOffsetFromRoot_ignoresDynamic(self) ==
  IF self.parent = NoParent THEN Some(0)
  ELSE LET own == IF self.offsetIntoParent.has
                    THEN self.offsetIntoParent.v ELSE 0
       IN  Some(own + getOffsetFromRoot_ignoresDynamic(self.parent).v)

(* llvm::Optional<int64_t> Slice::getOffsetFromRoot()                      *)
RECURSIVE getOffsetFromRoot(_)
getOffsetFromRoot(self) ==
  IF self.parent = NoParent THEN Some(0)
  ELSE LET add(parentOffset) ==
             IF ~self.offsetIntoParent.has \/ ~parentOffset.has THEN None
             ELSE Some(self.offsetIntoParent.v + parentOffset.v)
       IN  add(getOffsetFromRoot(self.parent))

-----------------------------------------------------------------------------
(* CapnpSegmentBuilder.  segmentValues is the IntervalMap: the stored      *)
(* intervals [start, stop] (inclusive) with their values, by ascending     *)
(* start.  ok is FALSE once an assert has failed; failure names it.        *)

CapnpSegmentBuilder(expectedSize) ==
  [segmentValues |-> <<>>, messageSize |-> 0, expectedSize |-> expectedSize,
   ok |-> TRUE, failure |-> "", allocs |-> <<>>]

failed(seg, failure) == [seg EXCEPT !.ok = FALSE, !.failure = failure]

(* An alloc that returns the end of the region it has just allocated.      *)
alloc_returnsEnd(seg, nbits) ==
  [ptr |-> seg.messageSize + nbits,
   seg |-> [seg EXCEPT !.messageSize = @ + nbits,
                       !.allocs = Append(@, [ptr |-> seg.messageSize + nbits,
                                             bits |-> nbits])]]

(* uint64_t alloc(size_t bits)                                             *)
alloc(seg, nbits) ==
  [ptr |-> seg.messageSize,
   seg |-> [seg EXCEPT !.messageSize = @ + nbits,
                       !.allocs = Append(@, [ptr |-> seg.messageSize,
                                             bits |-> nbits])]]

(* An overlap test that only sees a stored interval starting inside        *)
(* [a, b].                                                                 *)
overlaps_startOnly(segmentValues, a, b) ==
  \E i \in 1..Len(segmentValues) :
    a <= segmentValues[i].start /\ segmentValues[i].start <= b

(* IntervalMap::overlaps(a, b)                                             *)
overlaps(segmentValues, a, b) ==
  \E i \in 1..Len(segmentValues) :
    segmentValues[i].start <= b /\ a <= segmentValues[i].stop

(* IntervalMap::insert(a, b, val)                                          *)
IntervalMap_insert(segmentValues, a, b, val) ==
  LET before == SelectSeq(segmentValues, LAMBDA e : e.start < a)
      after == SelectSeq(segmentValues, LAMBDA e : e.start >= a)
  IN  before \o <<[start |-> a, stop |-> b, val |-> val]>> \o after

(* void insert(uint64_t offset, GasketComponent val)                       *)
insert(seg, offset, val) ==
  LET valSize == getBitWidth(val.type)
  IN  IF ~seg.ok THEN seg
      ELSE IF overlaps(seg.segmentValues, offset, offset + valSize - 1)
        THEN failed(seg, "overlaps")
      ELSE IF ~(offset + valSize - 1 < seg.expectedSize)
        THEN failed(seg,
               "Tried to insert above the max expected size of the message.")
      ELSE [seg EXCEPT !.segmentValues =
              IntervalMap_insert(@, offset, offset + valSize - 1, val)]

RECURSIVE encodeFieldAt(_, _, _, _)
RECURSIVE buildListElements(_, _, _, _, _)

(* uint64_t buildList(Slice val, Type::Reader type): the address and the   *)
(* builder after it.                                                       *)
buildList(seg, val, type) ==
  LET elemWidth == bits(type.elementType)
      built(a) ==
        [listOffset |-> a.ptr,
         seg |-> buildListElements(a.seg, val, type, a.ptr, 0)]
  IN  built(alloc(seg, elemWidth * val.type.n))

(* The loop of buildList from i on.                                        *)
buildListElements(seg, val, type, listOffset, i) ==
  LET e == val.type.n
      elemType == type.elementType
      elemWidth == bits(elemType)
      elemNum == e - i - 1
  IN  IF i >= e \/ ~seg.ok THEN seg
      ELSE buildListElements(
             encodeFieldAt(seg, listOffset + (elemNum * elemWidth),
                           Slice_at(val, i), elemType),
             val, type, listOffset, i + 1)

(* encodeFieldAt writing the element count before the element-size code.  *)
encodeFieldAt_countFirst(seg, offset, val, type) ==
  CASE val.type.k = "int" -> insert(seg, offset, val)
    [] val.type.k = "array" ->
         LET pointTo(list) ==
               insert(list.seg, offset,
                      concat(<<constant(2, 1),
                               constant(30, (list.listOffset - offset - 64)
                                              \div 64),
                               constant(29, val.type.n),
                               constant(3, bitsEncoding(type.elementType))>>))
         IN  pointTo(buildList(seg, Slice(val), type))
    [] OTHER -> seg

(* void encodeFieldAt(uint64_t offset, GasketComponent val, Type::Reader)  *)
encodeFieldAt(seg, offset, val, type) ==
  CASE val.type.k = "int" -> insert(seg, offset, val)
    [] val.type.k = "array" ->
         LET pointTo(list) ==
               insert(list.seg, offset,
                      concat(<<constant(2, 1),
                               constant(30, (list.listOffset - offset - 64)
                                              \div 64),
                               constant(3, bitsEncoding(type.elementType)),
                               constant(29, val.type.n)>>))
         IN  pointTo(buildList(seg, Slice(val), type))
    [] OTHER -> seg

(* The field loop of encodeStructAt from field i on.                       *)
RECURSIVE encodeStructFields(_, _, _, _, _, _)
encodeStructFields(seg, cStruct, mFieldValues, dataOffset, pointerOffset, i) ==
  IF i > Len(cStruct.fields) \/ ~seg.ok THEN seg
  ELSE LET field == cStruct.fields[i]
           idx == field.codeOrder
           fieldOffset ==
             (IF isPointerType(field.type) THEN pointerOffset ELSE dataOffset)
               + field.offset * bits(field.type)
       IN  IF ~(idx < Len(mFieldValues))
             THEN failed(seg, "Capnp struct longer than fieldValues.")
           ELSE encodeStructFields(
                  encodeFieldAt(seg, fieldOffset, mFieldValues[idx + 1],
                                field.type),
                  cStruct, mFieldValues, dataOffset, pointerOffset, i + 1)

(* GasketComponent encodeStructAt(ptrLoc, cStruct, mFieldValues): the      *)
(* struct pointer and the builder after it.                                *)
encodeStructAt(seg, ptrLoc, cStruct, mFieldValues) ==
  LET encode(a) ==
        [structPtr |->
           concat(<<constant(2, 0),
                    constant(30, ((a.ptr - ptrLoc) \div 64) - 1),
                    constant(16, cStruct.dataWordCount),
                    constant(16, cStruct.pointerCount)>>),
         seg |->
           IF a.ptr % 64 # 0 THEN failed(a.seg, "structDataSectionOffset")
           ELSE encodeStructFields(a.seg, cStruct, mFieldValues, a.ptr,
                                   a.ptr + (cStruct.dataWordCount * 64), 1)]
  IN  IF ptrLoc % 64 # 0
        THEN [structPtr |-> zero(64), seg |-> failed(seg, "ptrLoc")]
      ELSE encode(alloc(seg, (cStruct.dataWordCount + cStruct.pointerCount)
                                * 64))

(* The loop of compile() from interval i on: the values and the padding    *)
(* between them, by ascending address.                                     *)
RECURSIVE segmentValuesPlusPadding(_, _, _)
segmentValuesPlusPadding(segmentValues, i, lastStop) ==
  IF i > Len(segmentValues)
    THEN [ok |-> TRUE, values |-> <<>>, lastStop |-> lastStop]
  ELSE LET it == segmentValues[i]
           padBits == it.start - lastStop
           prepend(rest) ==
             [ok |-> rest.ok,
              values |-> (IF padBits # 0 THEN <<padding(padBits)>> ELSE <<>>)
                           \o <<castBitArray(it.val)>> \o rest.values,
              lastStop |-> rest.lastStop]
       IN  IF padBits < 0
             THEN [ok |-> FALSE, values |-> <<>>, lastStop |-> lastStop]
           ELSE prepend(segmentValuesPlusPadding(segmentValues, i + 1,
                                                 it.stop + 1))

(* GasketComponent compile() const                                         *)
compile(seg) ==
  LET finish(filled) ==
        IF ~filled.ok \/ ~(seg.expectedSize >= filled.lastStop)
          THEN [ok |-> FALSE, val |-> zero(0)]
        ELSE [ok |-> TRUE,
              val |-> concat(filled.values
                               \o (IF filled.lastStop # seg.expectedSize
                                     THEN <<padding(seg.expectedSize
                                                      - filled.lastStop)>>
                                   ELSE <<>>))]
  IN  finish(segmentValuesPlusPadding(seg.segmentValues, 1, 0))

(* GasketComponent build(cStruct, mFieldValues): the message and the       *)
(* builder after it.                                                       *)
build(seg, cStruct, mFieldValues) ==
  LET finish(s) ==
        LET compiled(c) ==
              [ok |-> s.ok /\ c.ok, val |-> c.val, seg |-> s]
        IN  IF ~s.ok THEN [ok |-> FALSE, val |-> zero(0), seg |-> s]
            ELSE compiled(compile(s))
      root(st) == finish(insert(st.seg, 0, st.structPtr))
      start(a) ==
        IF a.ptr # 0
          THEN [ok |-> FALSE, val |-> zero(0),
                seg |-> failed(a.seg, "rootPtrLoc")]
        ELSE root(encodeStructAt(a.seg, a.ptr, cStruct, mFieldValues))
  IN  start(alloc(seg, 64))

-----------------------------------------------------------------------------
(* TypeSchemaImpl::buildEncoder.  The result tells whether the build ran   *)
(* to the end (ok), the assert that stopped it otherwise (failure),        *)
(* whether the RTLModuleOp had been created by then, the schema text       *)
(* written on the way, and the module's output for the operand.            *)

(* The values in the struct being encoded.                                 *)
encoderFieldValues(self, operand) ==
  IF self.canonicalType.k = "struct"
    THEN [i \in 1..Len(self.canonicalType.fs) |-> StructExtractOp(operand, i)]
  ELSE <<operand>>

TypeSchemaImpl_buildEncoder(self, operandVal) ==
  LET stopped(failure, created, modName, text, seg, obj) ==
        [ok |-> FALSE, failure |-> failure, moduleCreated |-> created,
         modName |-> modName, text |-> text, seg |-> seg, self |-> obj]
      encode(nm, sz, ts, built) ==
        IF ~built.ok
          THEN stopped(built.seg.failure, TRUE, <<"encode">> \o nm.val,
                       sz.text, built.seg, ts.self)
        ELSE [ok |-> TRUE, failure |-> "", moduleCreated |-> TRUE,
              modName |-> <<"encode">> \o nm.val, text |-> sz.text,
              outputType |-> ArrayType(SignlessInteger(1), sz.val),
              seg |-> built.seg, ret |-> built.val, self |-> ts.self]
      schema_(nm, sz, ts) ==
        IF operandVal.type # self.type
          THEN stopped("operand type", TRUE, <<"encode">> \o nm.val, sz.text,
                       CapnpSegmentBuilder(sz.val), ts.self)
        ELSE encode(nm, sz, ts,
                    build(CapnpSegmentBuilder(sz.val), ts.typeSchema,
                          encoderFieldValues(self, operandVal)))
      sized(nm, sz) ==
        IF ~sz.ok
          THEN stopped("size", FALSE, <<"encode">> \o nm.val, sz.text,
                       CapnpSegmentBuilder(0), sz.self)
        ELSE schema_(nm, sz, getTypeSchema(sz.self))
      named(nm) ==
        IF ~nm.ok
          THEN stopped("name", FALSE, <<"encode">>, <<>>,
                       CapnpSegmentBuilder(0), nm.self)
        ELSE sized(nm, TypeSchemaImpl_size(nm.self))
  IN  named(name(self))

-----------------------------------------------------------------------------
(* The decoder.  An assertion built by AssertBuilder is the predicate, the *)
(* value compared and the expected constant of the value's width.          *)

(* assertEqual that builds an unsigned less-or-equal comparison.           *)
assertEqual_asUle(veg, expected) ==
  LET val == IF veg.type.k = "int" THEN [type |-> veg.type, bits |-> veg.bits]
             ELSE [type |-> [k |-> "int", w |-> veg.type.n, s |-> "signless"],
                   bits |-> veg.bits]
  IN  [pred |-> "ule", val |-> val,
       expectedVal |-> [type |-> val.type,
                        bits |-> [i \in 1..val.type.w |->
                                    IF i > 30 THEN 0
                                    ELSE (expected \div (2 ^ (i - 1))) % 2]]]

(* An assertPred that compares with the constant after the expected one.  *)
assertPred_expectsSuccessor(veg, pred, expected) ==
  LET val == IF veg.type.k = "int" THEN Value(veg.type, veg.bits)
             ELSE cast(veg, SignlessInteger(veg.type.n))
  IN  [pred |-> pred, val |-> val,
       expectedVal |-> ConstantOp(val.type, expected + 1)]

(* AssertBuilder::assertPred(GasketComponent, pred, expected)              *)
assertPred(veg, pred, expected) ==
  LET val == IF veg.type.k = "int" THEN Value(veg.type, veg.bits)
             ELSE cast(veg, SignlessInteger(veg.type.n))
  IN  [pred |-> pred, val |-> val,
       expectedVal |-> ConstantOp(val.type, expected)]

assertEqual(veg, expected) == assertPred(veg, "eq", expected)

(* The element size field taken one code too high for 8 bits and more.     *)
expectedElemSizeField_offByOne(expectedElemSizeBits) ==
  CASE expectedElemSizeBits = 0 -> 0
    [] expectedElemSizeBits = 1 -> 1
    [] expectedElemSizeBits = 8 -> 3
    [] expectedElemSizeBits = 16 -> 4
    [] expectedElemSizeBits = 32 -> 5
    [] expectedElemSizeBits = 64 -> 6
    [] OTHER -> -1

(* The element size field decodeList expects for an element width.         *)
expectedElemSizeField(expectedElemSizeBits) ==
  CASE expectedElemSizeBits = 0 -> 0
    [] expectedElemSizeBits = 1 -> 1
    [] expectedElemSizeBits = 8 -> 2
    [] expectedElemSizeBits = 16 -> 3
    [] expectedElemSizeBits = 32 -> 4
    [] expectedElemSizeBits = 64 -> 5
    [] OTHER -> -1

(* The loop of decodeList that collects the reduced elements, from i on.   *)
RECURSIVE reducedElements(_, _, _)
reducedElements(arrayOfElements, elemType, i) ==
  IF i >= arrayOfElements.type.n THEN <<>>
  ELSE <<downcast(Slice_at(arrayOfElements, i), elemType)>>
         \o reducedElements(arrayOfElements, elemType, i + 1)

(* static GasketComponent decodeList(type, field, ptrSection, asserts)     *)
decodeList(type, field, ptrSection) ==
  LET ptr == slice(ptrSection, field.offset * 64, 64)
      expectedElemSizeBits == bits(field.type.elementType)
      asserts ==
        <<assertEqual(slice(ptr, 0, 2), 1),
          assertEqual(slice(ptr, 32, 3),
                      expectedElemSizeField(expectedElemSizeBits)),
          assertPred(slice(ptr, 35, 29), "ule", type.n)>>
      stopped(failure, lists) ==
        [ok |-> FALSE, failure |-> failure, asserts |-> asserts,
         lists |-> lists]
      elements(arrayOfElements, lists) ==
        IF arrayOfElements.type = type
          THEN [ok |-> TRUE, failure |-> "", asserts |-> asserts,
                lists |-> lists,
                val |-> Value(arrayOfElements.type, arrayOfElements.bits)]
        ELSE [ok |-> TRUE, failure |-> "", asserts |-> asserts,
              lists |-> lists,
              val |-> ArrayCreateOp(reducedElements(arrayOfElements, type.e,
                                                    0))]
      payload(listSlice, lists) ==
        IF ~listSlice.ok
          THEN stopped("LSB Value must not be smaller than expected.", lists)
        ELSE IF type.e.k # "int"
          THEN stopped("DecodeList() only works on arrays of ints currently",
                       lists)
        ELSE elements(castToSlice(listSlice,
                                  SignlessInteger(expectedElemSizeBits),
                                  type.n),
                      lists)
      sliced(offset, ptrOffset, listOffset) ==
        payload(sliceAtValue(getRootSlice(ptr), listOffset,
                             type.n * expectedElemSizeBits),
                <<[ptrOffset |-> ptrOffset,
                   offset |-> FromBits(offset.bits),
                   listOffset |-> FromBits(listOffset.bits),
                   size |-> type.n * expectedElemSizeBits]>>)
      locate(offset, ptrOffset) ==
        IF ~ptrOffset.has THEN stopped("ptrOffset", <<>>)
        ELSE sliced(offset, ptrOffset.v,
                    AddOp(offset, ConstantOp(SignlessInteger(30),
                                             ptrOffset.v + 64)))
  IN  IF field.type.which # "LIST" THEN stopped("capnpType.isList()", <<>>)
      ELSE IF expectedElemSizeField(expectedElemSizeBits) < 0
        THEN stopped("bits() returned unexpected value", <<>>)
      ELSE locate(cast(slice(ptr, 2, 30), SignlessInteger(30)),
                  getOffsetFromRoot(ptr))

(* static GasketComponent decodeField(type, field, dataSection,            *)
(* ptrSection, asserts)                                                    *)
decodeField(type, field, dataSection, ptrSection) ==
  CASE type.k = "int" ->
         [ok |-> TRUE, failure |-> "", asserts |-> <<>>, lists |-> <<>>,
          val |-> cast(slice(dataSection, field.offset * bits(field.type),
                             type.w),
                       type)]
    [] type.k = "array" -> decodeList(type, field, ptrSection)
    [] OTHER -> [ok |-> FALSE, failure |-> "TypeSwitch", asserts |-> <<>>,
                 lists |-> <<>>]

(* The field loop of buildDecoder from field i on.                         *)
RECURSIVE decodeFields(_, _, _, _, _)
decodeFields(fieldTypes, cFields, dataSection, ptrSection, i) ==
  IF i > Len(cFields)
    THEN [ok |-> TRUE, failure |-> "", asserts |-> <<>>, lists |-> <<>>,
          fieldValues |-> <<>>]
  ELSE LET idx == cFields[i].codeOrder
           push(v, rest) ==
             [ok |-> rest.ok, failure |-> rest.failure,
              asserts |-> v.asserts \o rest.asserts,
              lists |-> v.lists \o rest.lists,
              fieldValues |-> <<v.val>> \o rest.fieldValues]
           decoded(v) ==
             IF ~v.ok
               THEN [ok |-> FALSE, failure |-> v.failure,
                     asserts |-> v.asserts, lists |-> v.lists,
                     fieldValues |-> <<>>]
             ELSE push(v, decodeFields(fieldTypes, cFields, dataSection,
                                       ptrSection, i + 1))
       IN  IF ~(idx < Len(fieldTypes))
             THEN [ok |-> FALSE,
                   failure |-> "Capnp struct longer than fieldTypes.",
                   asserts |-> <<>>, lists |-> <<>>, fieldValues |-> <<>>]
           ELSE decoded(decodeField(fieldTypes[idx + 1].type, cFields[i],
                                    dataSection, ptrSection))

(* TypeSchemaImpl::buildDecoder, with the result as for buildEncoder and   *)
(* the assertions the module holds.                                        *)
TypeSchemaImpl_buildDecoder(self, operandVal) ==
  LET stopped(failure, created, modName, text, asserts, obj) ==
        [ok |-> FALSE, failure |-> failure, moduleCreated |-> created,
         modName |-> modName, text |-> text, asserts |-> asserts,
         self |-> obj]
      rootAsserts(ptr, st) ==
        <<assertEqual(slice(ptr, 0, 32), 0),
          assertEqual(cast(slice(ptr, 32, 16), SignlessInteger(16)),
                      st.dataWordCount),
          assertEqual(cast(slice(ptr, 48, 16), SignlessInteger(16)),
                      st.pointerCount)>>
      output(nm, sz, ts, asserts, fields) ==
        IF ~fields.ok
          THEN stopped(fields.failure, TRUE, <<"decode">> \o nm.val, sz.text,
                       asserts \o fields.asserts, ts.self)
        ELSE IF self.canonicalType.k \notin {"int", "array", "struct"}
          THEN stopped("TypeSwitch", TRUE, <<"decode">> \o nm.val, sz.text,
                       asserts \o fields.asserts, ts.self)
        ELSE [ok |-> TRUE, failure |-> "", moduleCreated |-> TRUE,
              modName |-> <<"decode">> \o nm.val, text |-> sz.text,
              outputType |-> self.type,
              asserts |-> asserts \o fields.asserts,
              lists |-> fields.lists,
              fieldValues |-> fields.fieldValues,
              ret |-> IF self.canonicalType.k = "struct"
                        THEN StructCreateOp(self.type, fields.fieldValues)
                      ELSE fields.fieldValues[1],
              self |-> ts.self]
      sections(nm, sz, ts, operand, st) ==
        output(nm, sz, ts, rootAsserts(slice(operand, 0, 64), st),
               decodeFields(self.fieldTypes, st.fields,
                            slice(operand, 64, st.dataWordCount * 64),
                            slice(operand, 64 + (st.dataWordCount * 64),
                                  st.pointerCount * 64),
                            1))
      schema_(nm, sz, ts) ==
        sections(nm, sz, ts, Slice(operandVal), ts.typeSchema)
      sized(nm, sz) ==
        IF ~sz.ok
          THEN stopped("size", TRUE, <<"decode">> \o nm.val, sz.text, <<>>,
                       sz.self)
        ELSE IF ~(operandVal.type.k = "array" /\ operandVal.type.n = sz.val)
          THEN stopped(
                 "Operand type and length must match the type's capnp size.",
                 TRUE, <<"decode">> \o nm.val, sz.text, <<>>, sz.self)
        ELSE schema_(nm, sz, getTypeSchema(sz.self))
      named(nm) ==
        IF ~nm.ok THEN stopped("name", FALSE, <<"decode">>, <<>>, <<>>, nm.self)
        ELSE sized(nm, TypeSchemaImpl_size(nm.self))
  IN  named(name(self))

-----------------------------------------------------------------------------
(* The types the specifications draw from.                                 *)

i8 == IntegerType(8, "signless")
ui8 == IntegerType(8, "unsigned")
si12 == IntegerType(12, "signed")
i65 == IntegerType(65, "signless")

SchemaWidths == {0, 1, 2, 8, 9, 16, 17, 32, 33, 64, 65}
SchemaInts == {IntegerType(w, s) : w \in SchemaWidths, s \in Signedness}

InnerStruct == StructType(<<FieldInfo(<<"x">>, i8)>>)

SchemaArrays ==
  {ArrayType(e, n) :
     e \in {IntegerType(1, "signless"), ui8, si12, i65, InnerStruct, NoneType,
            TypeAliasType(<<"e">>, i8), ArrayType(ui8, 2),
            ArrayType(InnerStruct, 1)},
     n \in 1..MaxArrayLen}

fieldNames == <<<<"a">>, <<"b", "b">>, <<"c">>, <<"d", "d">>>>

SchemaFieldTypes ==
  {ui8, si12, i65, ArrayType(ui8, 2), ArrayType(ArrayType(i8, 2), 2), InnerStruct}

SchemaStructs ==
  {StructType([i \in 1..Len(ts) |-> FieldInfo(fieldNames[i], ts[i])]) :
     ts \in SeqsUpTo(SchemaFieldTypes, MaxStructFields)}

SchemaAliases ==
  {TypeAliasType(<<"t">>, t) :
     t \in {i8, i65, ArrayType(ui8, 2), InnerStruct, NoneType,
            StructType(<<FieldInfo(<<"a">>, InnerStruct)>>),
            TypeAliasType(<<"u">>, si12)}}

SchemaTypes ==
  SchemaInts \cup SchemaArrays \cup SchemaStructs \cup SchemaAliases
    \cup {NoneType}

-----------------------------------------------------------------------------
(* Spec: one TypeSchemaImpl object and the calls made on it.               *)

NoObj == [type |-> NoneType, fieldTypes |-> <<>>, constructed |-> FALSE]

schemaIdle == schema = NoObj /\ ret = [op |-> "none"]
typeIDIdle == objs = <<>> /\ idLog = <<>>
cacheIdle ==
  /\ encImplMods = <<>> /\ decImplMods = <<>> /\ topMod = <<>> /\ insts = <<>>
  /\ os = <<>> /\ reqLog = <<>> /\ crashed = FALSE
codecIdle == codec = [pc |-> "idle"]
simIdle == sim = [pc |-> "unbuilt"]
segIdle == segment = [pc |-> "none"]
threadsIdle == threads = [i \in 1..MaxThreads |-> [pc |-> "idle"]]
gasketIdle == gasket = [pc |-> "none"]

schemaVars == <<schema, ret>>
typeIDVars == <<objs, idLog>>
cacheVars == <<encImplMods, decImplMods, topMod, insts, os, reqLog, crashed>>
codecVars == <<codec>>
simVars == <<sim>>
segVars == <<segment>>
threadVars == <<threads>>
gasketVars == <<gasket>>

Init ==
  /\ schemaIdle /\ typeIDIdle /\ cacheIdle /\ codecIdle /\ simIdle /\ segIdle
  /\ threadsIdle /\ gasketIdle

(* The types of SpecTypeID; the printed form of the last is longer than    *)
(* 64 bytes.                                                               *)
TypeIDTypes ==
  {i8, ui8, ArrayType(ui8, 2), InnerStruct, TypeAliasType(<<"t">>, i8),
   StructType(<<FieldInfo(<<"a">>, ArrayType(ArrayType(i8, 2), 2)),
                FieldInfo(<<"b", "b">>, ArrayType(ArrayType(i8, 2), 2))>>)}

(* A failed assert has not stopped the program.                            *)
Running == ~(ret.op \in {"emitCapnpType", "write", "size"} /\ ~ret.ok)

Construct(t) ==
  /\ schema = NoObj
  /\ schema' = TypeSchemaImpl(t)
  /\ ret' = [op |-> "TypeSchemaImpl"]
  /\ UNCHANGED <<typeIDVars, cacheVars, codecVars, simVars, segVars,
               threadVars, gasketVars>>

CallIsSupported ==
  /\ schema # NoObj
  /\ Running
  /\ ret' = [op |-> "isSupported", val |-> TypeSchemaImpl_isSupported(schema)]
  /\ UNCHANGED <<schema, typeIDVars, cacheVars, codecVars, simVars, segVars,
               threadVars, gasketVars>>

CallEmitCapnpType ==
  /\ schema # NoObj
  /\ Running
  /\ LET r == emitCapnpType(schema.type)
     IN  ret' = [op |-> "emitCapnpType", ok |-> r.ok, text |-> r.text]
  /\ UNCHANGED <<schema, typeIDVars, cacheVars, codecVars, simVars, segVars,
               threadVars, gasketVars>>

CallWrite ==
  /\ schema # NoObj
  /\ Running
  /\ LET done(r) ==
           /\ ret' = [op |-> "write", ok |-> r.ok, text |-> r.text]
           /\ schema' = r.self
     IN  done(write(schema))
  /\ UNCHANGED <<typeIDVars, cacheVars, codecVars, simVars, segVars,
               threadVars, gasketVars>>

CallSize ==
  /\ schema # NoObj
  /\ Running
  /\ LET done(r) ==
           /\ ret' = [op |-> "size", ok |-> r.ok, val |-> r.val]
           /\ schema' = r.self
     IN  done(TypeSchemaImpl_size(schema))
  /\ UNCHANGED <<typeIDVars, cacheVars, codecVars, simVars, segVars,
               threadVars, gasketVars>>

Next ==
  \/ \E t \in SchemaTypes : Construct(t)
  \/ CallIsSupported
  \/ CallEmitCapnpType
  \/ CallWrite
  \/ CallSize

Spec == Init /\ [][Next]_vars

-----------------------------------------------------------------------------
(* SpecTypeID: several TypeSchemaImpl objects and the capnpTypeID() calls  *)
(* made on them.                                                           *)

NewTypeSchemaImpl(t) ==
  /\ Len(objs) < MaxObjects
  /\ objs' = Append(objs, TypeSchemaImpl(t))
  /\ idLog' = Append(idLog, <<>>)
  /\ UNCHANGED <<schemaVars, cacheVars, codecVars, simVars, segVars,
               threadVars, gasketVars>>

CallCapnpTypeID(o) ==
  /\ Len(idLog[o]) < MaxCalls
  /\ LET done(r) ==
           /\ objs' = [objs EXCEPT ![o] = r.self]
           /\ idLog' = [idLog EXCEPT ![o] = Append(@, r.val)]
     IN  done(capnpTypeID(objs[o]))
  /\ UNCHANGED <<schemaVars, cacheVars, codecVars, simVars, segVars,
               threadVars, gasketVars>>

NextTypeID ==
  \/ \E t \in TypeIDTypes : NewTypeSchemaImpl(t)
  \/ \E o \in 1..Len(objs) : CallCapnpTypeID(o)

SpecTypeID == Init /\ [][NextTypeID]_vars

-----------------------------------------------------------------------------
(* SpecCodec: the encoder module is built for a type and driven with a     *)
(* value of it; the decoder module for the same type is then built and     *)
(* driven with the encoder's output.                                       *)

CodecElements == {IntegerType(1, "signless"), i8, ui8, si12}

CodecInts ==
  CodecElements \cup {IntegerType(16, "unsigned"), IntegerType(64, "signless")}

CodecArrays ==
  {ArrayType(e, n) : e \in CodecElements, n \in 1..MaxArrayLen}
    \cup {ArrayType(ArrayType(i8, MaxArrayLen), MaxArrayLen)}

CodecFieldTypes == {ui8, si12, IntegerType(1, "signless"), ArrayType(ui8, 2)}

CodecStructs ==
  {StructType([i \in 1..Len(ts) |-> FieldInfo(fieldNames[i], ts[i])]) :
     ts \in SeqsUpTo(CodecFieldTypes, MaxStructFields) \ {<<>>}}

CodecTypes == CodecInts \cup CodecArrays \cup CodecStructs

(* The values driven: all ones, and a one in every stride-th bit.          *)
PatternStrides == {1, 2, 3, 5}

CodecValues(t) ==
  {Value(t, [i \in 1..getBitWidth(t) |-> IF i % stride = 0 THEN 1 ELSE 0]) :
     stride \in PatternStrides}

BuildEncoder(t, v) ==
  /\ codec.pc = "idle"
  /\ LET done(enc) ==
           codec' = [pc |-> "encoded", type |-> t, operand |-> v, enc |-> enc]
     IN  done(TypeSchemaImpl_buildEncoder(TypeSchemaImpl(t), v))
  /\ UNCHANGED <<schemaVars, typeIDVars, cacheVars, simVars, segVars,
               threadVars, gasketVars>>

BuildDecoder ==
  /\ codec.pc = "encoded"
  /\ codec.enc.ok
  /\ LET done(dec) ==
           codec' = [pc |-> "decoded", type |-> codec.type,
                     operand |-> codec.operand, enc |-> codec.enc,
                     dec |-> dec]
     IN  done(TypeSchemaImpl_buildDecoder(TypeSchemaImpl(codec.type),
                                          codec.enc.ret))
  /\ UNCHANGED <<schemaVars, typeIDVars, cacheVars, simVars, segVars,
               threadVars, gasketVars>>

NextCodec ==
  \/ \E t \in CodecTypes : \E v \in CodecValues(t) : BuildEncoder(t, v)
  \/ BuildDecoder

SpecCodec == Init /\ [][NextCodec]_vars

-----------------------------------------------------------------------------
(* SpecCache: TypeSchema::buildEncoder and TypeSchema::buildDecoder        *)
(* requests against the two static module caches.  A module is identified  *)
(* by its position in topMod; an instance holds the module's name.  A      *)
(* request stopped by an assert ends the program (crashed).                *)

CacheTypes ==
  {i8, ArrayType(ui8, 2), ArrayType(ArrayType(i8, 2), 2), i65,
   StructType(<<FieldInfo(<<"a">>, InnerStruct)>>)}

(* The lengths of the bit arrays handed to buildDecoder.                   *)
OperandSizes == {128, 192}

(* DenseMap::find that never finds the key.                                *)
find_neverFound(map, key) == None

(* DenseMap::find: the module stored under key, if any.                    *)
find(map, key) ==
  IF \E i \in 1..Len(map) : map[i].key = key
    THEN Some((CHOOSE e \in {map[i] : i \in 1..Len(map)} : e.key = key).mod)
  ELSE None

(* The instance built by a request on module mod, and the request's entry  *)
(* in the log.                                                             *)
instantiate(kind, nm, mod, modules) ==
  [instName |-> <<kind>> \o nm.val \o <<"Inst">>,
   moduleName |-> modules[mod].name,
   resTypes |-> modules[mod].resTypes]

logged(kind, t, operand, hit, ok, failure, mod, generated, text) ==
  [kind |-> kind, type |-> t, operandType |-> operand.type, hit |-> hit,
   ok |-> ok, failure |-> failure,
   mod |-> mod, generated |-> generated, text |-> text,
   inst |-> IF ok THEN Len(insts) + 1 ELSE 0]

(* Value TypeSchema::buildEncoder(builder, clk, valid, operand)            *)
TypeSchema_buildEncoder(t, operand) ==
  LET hit(s, mod, nm) ==
        /\ insts' = Append(insts, instantiate("encode", nm, mod, topMod))
        /\ reqLog' = Append(reqLog, logged("encode", t, operand, TRUE, TRUE,
                                           "", mod,
                                           0, <<>>))
        /\ UNCHANGED <<encImplMods, decImplMods, topMod, os, crashed>>
      miss(s, r) ==
        IF ~r.ok
          THEN /\ crashed' = TRUE
               /\ topMod' = IF r.moduleCreated
                              THEN Append(topMod, [name |-> r.modName,
                                                   resTypes |-> <<>>])
                            ELSE topMod
               /\ os' = os \o r.text
               /\ reqLog' = Append(reqLog,
                                   logged("encode", t, operand, FALSE, FALSE,
                                          r.failure,
                                          0, IF r.moduleCreated THEN 1 ELSE 0,
                                          r.text))
               /\ UNCHANGED <<encImplMods, decImplMods, insts>>
        ELSE /\ topMod' = Append(topMod, [name |-> r.modName,
                                          resTypes |-> <<r.outputType>>])
             /\ encImplMods' = Append(encImplMods,
                                      [key |-> t, mod |-> Len(topMod) + 1])
             /\ insts' = Append(insts,
                                instantiate("encode", name(r.self),
                                            Len(topMod) + 1, topMod'))
             /\ os' = os \o r.text
             /\ reqLog' = Append(reqLog,
                                 logged("encode", t, operand, FALSE, TRUE, "",
                                        Len(topMod) + 1, 1, r.text))
             /\ UNCHANGED <<decImplMods, crashed>>
      lookup(s, encImplIT) ==
        IF encImplIT.has THEN hit(s, encImplIT.v, name(s))
        ELSE miss(s, TypeSchemaImpl_buildEncoder(s, operand))
  IN  lookup(TypeSchemaImpl(t), find(encImplMods, t))

(* Value TypeSchema::buildDecoder(builder, clk, valid, operand)            *)
TypeSchema_buildDecoder(t, operand) ==
  LET hit(s, mod, nm) ==
        /\ insts' = Append(insts, instantiate("decode", nm, mod, topMod))
        /\ reqLog' = Append(reqLog, logged("decode", t, operand, TRUE, TRUE,
                                           "", mod,
                                           0, <<>>))
        /\ UNCHANGED <<encImplMods, decImplMods, topMod, os, crashed>>
      miss(s, r) ==
        IF ~r.ok
          THEN /\ crashed' = TRUE
               /\ topMod' = IF r.moduleCreated
                              THEN Append(topMod, [name |-> r.modName,
                                                   resTypes |-> <<t>>])
                            ELSE topMod
               /\ os' = os \o r.text
               /\ reqLog' = Append(reqLog,
                                   logged("decode", t, operand, FALSE, FALSE,
                                          r.failure,
                                          0, IF r.moduleCreated THEN 1 ELSE 0,
                                          r.text))
               /\ UNCHANGED <<encImplMods, decImplMods, insts>>
        ELSE /\ topMod' = Append(topMod, [name |-> r.modName,
                                          resTypes |-> <<r.outputType>>])
             /\ decImplMods' = Append(decImplMods,
                                      [key |-> t, mod |-> Len(topMod) + 1])
             /\ insts' = Append(insts,
                                instantiate("decode", name(r.self),
                                            Len(topMod) + 1, topMod'))
             /\ os' = os \o r.text
             /\ reqLog' = Append(reqLog,
                                 logged("decode", t, operand, FALSE, TRUE, "",
                                        Len(topMod) + 1, 1, r.text))
             /\ UNCHANGED <<encImplMods, crashed>>
      lookup(s, decImplIT) ==
        IF decImplIT.has THEN hit(s, decImplIT.v, name(s))
        ELSE miss(s, TypeSchemaImpl_buildDecoder(s, operand))
  IN  lookup(TypeSchemaImpl(t), find(decImplMods, t))

BuildEncoderRequest(t) ==
  /\ ~crashed
  /\ Len(reqLog) < MaxRequests
  /\ TypeSchema_buildEncoder(t, Value(t, [i \in 1..getBitWidth(t) |-> 0]))
  /\ UNCHANGED <<schemaVars, typeIDVars, codecVars, simVars, segVars,
               threadVars, gasketVars>>

BuildDecoderRequest(t, n) ==
  /\ ~crashed
  /\ Len(reqLog) < MaxRequests
  /\ TypeSchema_buildDecoder(t, Value(ArrayType(SignlessInteger(1), n),
                                      [i \in 1..n |-> 0]))
  /\ UNCHANGED <<schemaVars, typeIDVars, codecVars, simVars, segVars,
               threadVars, gasketVars>>

NextCache ==
  \/ \E t \in CacheTypes : BuildEncoderRequest(t)
  \/ \E t \in CacheTypes : \E n \in OperandSizes : BuildDecoderRequest(t, n)

SpecCache == Init /\ [][NextCache]_vars

-----------------------------------------------------------------------------
(* SpecDecoder: a decoder module in simulation.  The module is built for a *)
(* type; the testbench drives valid and encodedInput, then changes clk.    *)
(* The assertions sit in sv.if valid inside sv.always posedge clk.         *)

ui16 == IntegerType(16, "unsigned")

DecoderTypes ==
  {ui8, ArrayType(ui16, 4),
   StructType(<<FieldInfo(<<"a">>, ArrayType(ui8, 2)),
                FieldInfo(<<"b", "b">>, si12)>>)}

(* comb::ICmpOp with predicate eq or ule.                                  *)
ICmpOp(pred, lhs, rhs) ==
  IF pred = "eq" THEN lhs.bits = rhs.bits
  ELSE FromBits(lhs.bits) <= FromBits(rhs.bits)

(* The always block without the sv.if on valid.                            *)
assertsChecked_ungated(clkBefore, clkAfter, valid) ==
  clkBefore = 0 /\ clkAfter = 1

(* sv::AlwaysOp AtPosEdge clk with sv::IfOp valid: whether the assertions  *)
(* in its body are checked when clk goes from clkBefore to clkAfter.       *)
assertsChecked(clkBefore, clkAfter, valid) ==
  clkBefore = 0 /\ clkAfter = 1 /\ valid = 1

(* The sv::AssertOps of the decoder for type t, for the bits on            *)
(* encodedInput.                                                           *)
decoderAsserts(t, encodedInput) ==
  TypeSchemaImpl_buildDecoder(
    TypeSchemaImpl(t),
    Value(ArrayType(SignlessInteger(1), Len(encodedInput)),
          encodedInput)).asserts

(* The messages driven: the encoder's output for a value of t, and that    *)
(* output with one bit of its pointer words changed.                       *)
encodedSample(t) ==
  TypeSchemaImpl_buildEncoder(
    TypeSchemaImpl(t),
    Value(t, [i \in 1..getBitWidth(t) |-> IF i % 3 = 0 THEN 1 ELSE 0])).ret.bits

PointerBits(t) ==
  IF t.k = "int" THEN 1..64
  ELSE IF t.k = "array" THEN 1..128
  ELSE (1..64) \cup (129..192)

DecoderMessages ==
  LET withFlips(t, sample) ==
        {sample} \cup {[sample EXCEPT ![p] = 1 - @] : p \in PointerBits(t)}
  IN  [t \in DecoderTypes |-> withFlips(t, encodedSample(t))]

BuildDecoderModule(t, clk) ==
  /\ sim.pc = "unbuilt"
  /\ sim' = [pc |-> "built", type |-> t, clk |-> clk]
  /\ UNCHANGED <<schemaVars, typeIDVars, cacheVars, codecVars, segVars,
               threadVars, gasketVars>>

DriveInputs(t, valid, encodedInput) ==
  /\ sim.pc \in {"built", "clocked"}
  /\ sim.type = t
  /\ sim' = [pc |-> "driven", type |-> sim.type, clk |-> sim.clk,
             valid |-> valid, encodedInput |-> encodedInput]
  /\ UNCHANGED <<schemaVars, typeIDVars, cacheVars, codecVars, segVars,
               threadVars, gasketVars>>

ClockChange(clk) ==
  /\ sim.pc = "driven"
  /\ LET settle(asserts) ==
           sim' = [pc |-> "clocked", type |-> sim.type, clk |-> clk,
                   valid |-> sim.valid, encodedInput |-> sim.encodedInput,
                   posedge |-> (sim.clk = 0 /\ clk = 1),
                   asserts |-> asserts,
                   failed |->
                     IF assertsChecked(sim.clk, clk, sim.valid)
                       THEN {i \in 1..Len(asserts) :
                               ~ICmpOp(asserts[i].pred, asserts[i].val,
                                       asserts[i].expectedVal)}
                     ELSE {}]
     IN  settle(decoderAsserts(sim.type, sim.encodedInput))
  /\ UNCHANGED <<schemaVars, typeIDVars, cacheVars, codecVars, segVars,
               threadVars, gasketVars>>

NextDecoder ==
  \/ \E t \in DecoderTypes : \E clk \in {0, 1} : BuildDecoderModule(t, clk)
  \/ \E t \in DecoderTypes : \E valid \in {0, 1} :
       \E encodedInput \in DecoderMessages[t] :
         DriveInputs(t, valid, encodedInput)
  \/ \E clk \in {0, 1} : ClockChange(clk)

SpecDecoder == Init /\ [][NextDecoder]_vars

(***************************************************************************)
(* SpecSegment: one CapnpSegmentBuilder, values inserted at bit offsets,   *)
(* then compiled.  A failed assert ends the run of the builder.            *)
(***************************************************************************)

MaxInserts == 2

SegmentSize == 6

SegmentOffsets == 0..SegmentSize

SegmentWidths == 1..3

(* The values inserted: of each width, the all-ones pattern and the value  *)
(* 1.                                                                      *)
SegmentValues ==
  {constant(w, n) : w \in SegmentWidths, n \in {1, 2}} \cup
  {constant(w, 2 ^ w - 1) : w \in SegmentWidths}

NewSegment(expectedSize) ==
  /\ segment.pc = "none"
  /\ segment' = [pc |-> "building", seg |-> CapnpSegmentBuilder(expectedSize),
                 inserted |-> <<>>, lists |-> <<>>]
  /\ UNCHANGED <<schemaVars, typeIDVars, codecVars, cacheVars, simVars,
               threadVars, gasketVars>>

Insert(offset, val) ==
  /\ segment.pc = "building"
  /\ segment.seg.ok
  /\ Len(segment.inserted) < MaxInserts
  /\ segment' = [segment EXCEPT
                   !.seg = insert(@, offset, val),
                   !.inserted = Append(@, [offset |-> offset, val |-> val,
                                           before |-> segment.seg])]
  /\ UNCHANGED <<schemaVars, typeIDVars, codecVars, cacheVars, simVars,
               threadVars, gasketVars>>

Compile ==
  /\ segment.pc = "building"
  /\ segment.seg.ok
  /\ segment' = [pc |-> "compiled", seg |-> segment.seg,
                 inserted |-> segment.inserted, lists |-> segment.lists,
                 compiled |-> compile(segment.seg)]
  /\ UNCHANGED <<schemaVars, typeIDVars, codecVars, cacheVars, simVars,
               threadVars, gasketVars>>

NextSegment ==
  \/ NewSegment(SegmentSize)
  \/ \E offset \in SegmentOffsets, val \in SegmentValues : Insert(offset, val)
  \/ Compile

SpecSegment == Init /\ [][NextSegment]_vars

(***************************************************************************)
(* SpecAlloc: the allocations made on one CapnpSegmentBuilder, by alloc    *)
(* itself and by buildList.                                                *)
(***************************************************************************)

MaxAllocs == 3

AllocSegmentSize == 512

AllocSizes == {1, 16, 64}

(* The arrays handed to buildList.                                         *)
ListValues ==
  {Value(t, [i \in 1..getBitWidth(t) |-> i % 2]) :
     t \in {ArrayType(ui8, 2), ArrayType(SignlessInteger(1), 3)}}

Alloc(nbits) ==
  /\ segment.pc = "building"
  /\ segment.seg.ok
  /\ Len(segment.seg.allocs) < MaxAllocs
  /\ segment' = [segment EXCEPT !.seg = alloc(@, nbits).seg]
  /\ UNCHANGED <<schemaVars, typeIDVars, codecVars, cacheVars, simVars,
               threadVars, gasketVars>>

BuildList(val) ==
  /\ segment.pc = "building"
  /\ segment.seg.ok
  /\ Len(segment.seg.allocs) < MaxAllocs
  /\ LET done(list) ==
           segment' = [segment EXCEPT
                         !.seg = list.seg,
                         !.lists = Append(@, [listOffset |-> list.listOffset,
                                              before |-> segment.seg])]
     IN  done(buildList(segment.seg, Slice(val),
                        parseCapnpType(emitCapnpType(val.type).text)))
  /\ UNCHANGED <<schemaVars, typeIDVars, codecVars, cacheVars, simVars,
               threadVars, gasketVars>>

NextAlloc ==
  \/ NewSegment(AllocSegmentSize)
  \/ \E nbits \in AllocSizes : Alloc(nbits)
  \/ \E val \in ListValues : BuildList(val)

SpecAlloc == Init /\ [][NextAlloc]_vars

-----------------------------------------------------------------------------
(* Properties of Spec.                                                     *)

RECURSIVE AliasResolved(_)
AliasResolved(t) == IF t.k = "alias" THEN AliasResolved(t.inner) ELSE t

RECURSIVE SupportedNonOuter(_)
SupportedNonOuter(t) ==
  LET r == AliasResolved(t)
  IN  \/ r.k = "int" /\ r.w <= 64
      \/ r.k = "array" /\ SupportedNonOuter(r.e)

SupportedOuter(t) ==
  LET r == AliasResolved(t)
  IN  \/ r.k = "int" /\ r.w <= 64
      \/ r.k = "array" /\ SupportedNonOuter(r.e)
      \/ r.k = "struct"
           /\ \A i \in 1..Len(r.fs) : SupportedNonOuter(r.fs[i].type)

(* C5: isSupported(T), after resolving aliases, is true exactly when T is  *)
(* an integer of width <= 64, or an array whose element type is supported  *)
(* as a non-outer type, or an outermost struct all of whose element types  *)
(* are supported as non-outer types; a struct in a non-outer position and  *)
(* every other type category is unsupported.                               *)
C5_IsSupportedCharacterised ==
  ret.op = "isSupported" => ret.val = SupportedOuter(schema.type)

(* isSupported() returned true for a struct (behind an alias or not) that  *)
(* has an array field.                                                     *)
C5_Witness ==
  /\ ret.op = "isSupported" /\ ret.val
  /\ schema.canonicalType.k = "struct"
  /\ \E i \in 1..Len(schema.fieldTypes) : schema.fieldTypes[i].type.k = "array"

(* C6: isSupported() is false for every array type whose element type is   *)
(* an array or a struct.                                                   *)
C6_NestedArraysRejected ==
  (/\ ret.op = "isSupported"
   /\ schema.canonicalType.k = "array"
   /\ AliasResolved(schema.canonicalType.e).k \in {"array", "struct"})
    => ret.val = FALSE

(* C8: an alias-resolved integer yields exactly one field "i" of that      *)
(* type, an array exactly one field "l" of that type, a struct its own     *)
(* elements in declared order, any other type no field.                    *)
C8_FieldDerivation ==
  schema # NoObj =>
    LET r == AliasResolved(schema.type)
    IN  CASE r.k = "int" ->
               schema.fieldTypes = <<[name |-> <<"i">>, type |-> r]>>
          [] r.k = "array" ->
               schema.fieldTypes = <<[name |-> <<"l">>, type |-> r]>>
          [] r.k = "struct" ->
               /\ Len(schema.fieldTypes) = Len(r.fs)
               /\ \A i \in 1..Len(r.fs) : schema.fieldTypes[i] = r.fs[i]
          [] OTHER -> schema.fieldTypes = <<>>

(* An object constructed from an alias of an integer type has its one      *)
(* field "i".                                                              *)
C8_Witness ==
  /\ schema # NoObj /\ schema.type.k = "alias"
  /\ AliasResolved(schema.type).k = "int"
  /\ Len(schema.fieldTypes) = 1 /\ schema.fieldTypes[1].name = <<"i">>

(* The field declarations of a schema text as the schema compiler reads    *)
(* them, in textual order.                                                 *)
DeclaredFields(text) == parseFields(text, indexOf(text, " {\n", 1) + 1, 0)

(* C9: write() emits one field line per entry of fieldTypes, in            *)
(* fieldTypes order, the k-th entry (from 0) with ordinal @k.              *)
C9_OrdinalsFollowFieldTypes ==
  (ret.op = "write" /\ ret.ok) =>
    LET ordered(decls) ==
          /\ Len(decls) = Len(schema.fieldTypes)
          /\ \A k \in 1..Len(decls) :
               /\ decls[k].name = schema.fieldTypes[k].name
               /\ decls[k].ordinal = k - 1
    IN  ordered(DeclaredFields(ret.text))

(* write() ran to the end on a struct of two fields.                       *)
C9_Witness ==
  /\ ret.op = "write" /\ ret.ok
  /\ schema.canonicalType.k = "struct" /\ Len(schema.fieldTypes) = 2

WidthNames == [r \in {8, 16, 32, 64} |->
                 CASE r = 8 -> "8" [] r = 16 -> "16" [] r = 32 -> "32"
                   [] OTHER -> "64"]

RECURSIVE ExpectedCapnpType(_)
ExpectedCapnpType(t) ==
  LET r == AliasResolved(t)
  IN  CASE r.k = "int" /\ r.w = 0 -> [ok |-> TRUE, text |-> <<"Void">>]
        [] r.k = "int" /\ r.w = 1 -> [ok |-> TRUE, text |-> <<"Bool">>]
        [] r.k = "int" /\ r.w \in 2..64 ->
             [ok |-> TRUE,
              text |-> <<IF r.s = "signed" THEN "Int" ELSE "UInt",
                         WidthNames[CHOOSE x \in {8, 16, 32, 64} :
                                      /\ r.w <= x
                                      /\ \A y \in {8, 16, 32, 64} :
                                           r.w <= y => x <= y]>>]
        [] r.k = "array" ->
             LET wrap(e) ==
                   IF e.ok THEN [ok |-> TRUE,
                                 text |-> <<"List(">> \o e.text \o <<")">>]
                   ELSE [ok |-> FALSE]
             IN  wrap(ExpectedCapnpType(r.e))
        [] OTHER -> [ok |-> FALSE]

(* C10: width 0 is emitted as Void, width 1 as Bool, width w in 2..64 as   *)
(* Int<r> when signed and UInt<r> otherwise with r the smallest of 8, 16,  *)
(* 32, 64 with w <= r; an array as List(<element type>); a struct in field *)
(* position and an integer wider than 64 are rejected.                     *)
C10_CapnpTypeEmission ==
  ret.op = "emitCapnpType" =>
    LET agrees(e) == ret.ok = e.ok /\ (e.ok => ret.text = e.text)
    IN  agrees(ExpectedCapnpType(schema.type))

(* emitCapnpType wrote List(Int16) for an array of si12.                   *)
C10_Witness ==
  /\ ret.op = "emitCapnpType" /\ ret.ok
  /\ ret.text = <<"List(", "Int", "16", ")">>
  /\ schema.type.k = "array" /\ schema.type.e = si12

-----------------------------------------------------------------------------
(* Properties of SpecTypeID.                                               *)

Blocks64(text) ==
  [i \in 1..(Len(text) \div 64) |-> SubSeq(text, 64 * (i - 1) + 1, 64 * i)]

RECURSIVE FoldBlocks(_, _)
FoldBlocks(blocks, hash) ==
  IF blocks = <<>> THEN hash
  ELSE FoldBlocks(Tail(blocks), hash_33to64_bytes(Head(blocks), 64, hash))

PaddedTo64(text) ==
  text \o [i \in 1..((64 - (Len(text) % 64)) % 64) |-> " "]

(* The ID as a function of the printed form of a type.                     *)
IDOfPrintedForm(text) ==
  LET fold(blocks) == FoldBlocks(blocks, U64(esiCosimSchemaVersion))
      id(hash) == [hash EXCEPT ![4] = IF @ >= 2 ^ 15 THEN @ ELSE @ + 2 ^ 15]
  IN  id(fold(Blocks64(PaddedTo64(text))))

(* C7: capnpTypeID(T) is a function of T's printed form (padded to a       *)
(* multiple of 64 bytes and folded block by block from the schema-version  *)
(* seed): all objects of one type, and all calls on one object, return the *)
(* same 64-bit value, and that value has bit 63 set.                       *)
C7_TypeIDDeterministic ==
  /\ \A o \in 1..Len(objs) : \A k \in 1..Len(idLog[o]) :
       /\ idLog[o][k][4] >= 2 ^ 15
       /\ idLog[o][k] = idLog[o][1]
       /\ idLog[o][k] = IDOfPrintedForm(PrintType(objs[o].type))
  /\ \A o1, o2 \in 1..Len(objs) :
       (/\ PrintType(objs[o1].type) = PrintType(objs[o2].type)
        /\ idLog[o1] # <<>> /\ idLog[o2] # <<>>)
         => idLog[o1][1] = idLog[o2][1]

(* Two objects of one type whose printed form spans two blocks, the first  *)
(* asked twice and the second once.                                        *)
C7_Witness ==
  /\ Len(objs) = 2 /\ objs[1].type = objs[2].type
  /\ Len(PrintType(objs[1].type)) > 64
  /\ Len(idLog[1]) = 2 /\ Len(idLog[2]) >= 1

-----------------------------------------------------------------------------
(* Properties of SpecCodec.                                                *)

Supported(t) == TypeSchemaImpl_isSupported(TypeSchemaImpl(t))

(* An assertion of the decoder holds for the bits driven.                  *)
AssertionHolds(a) ==
  IF a.pred = "eq" THEN a.val.bits = a.expectedVal.bits
  ELSE FromBits(a.val.bits) <= FromBits(a.expectedVal.bits)

(* C1: round trip.  For every type accepted by isSupported() and every     *)
(* value v of it, the encoder module is built, and the decoder module      *)
(* driven with the encoder's output is built and yields v again, bit for   *)
(* bit and element index for element index.                                *)
C1_RoundTrip ==
  (codec.pc # "idle" /\ Supported(codec.type)) =>
    /\ codec.enc.ok
    /\ codec.pc = "decoded" =>
         /\ codec.dec.ok
         /\ \A i \in 1..Len(codec.dec.asserts) :
              AssertionHolds(codec.dec.asserts[i])
         /\ codec.dec.ret.type = codec.type
         /\ codec.dec.ret.bits = codec.operand.bits

(* C2: size invariant.  For every type accepted by isSupported(),          *)
(* building the encoder succeeds with every insert inside [0, size()),     *)
(* and the encoder's output has exactly size() bits, a multiple of 64.     *)
C2_SizeInvariant ==
  (codec.pc # "idle" /\ Supported(codec.type)) =>
    /\ codec.enc.ok
    /\ \A i \in 1..Len(codec.enc.seg.segmentValues) :
         /\ codec.enc.seg.segmentValues[i].start >= 0
         /\ codec.enc.seg.segmentValues[i].stop < codec.enc.seg.expectedSize
    /\ Len(codec.enc.ret.bits) = codec.enc.seg.expectedSize
    /\ codec.enc.seg.expectedSize % 64 = 0

-----------------------------------------------------------------------------
(* Properties of SpecCache.                                                *)

Completed == {i \in 1..Len(reqLog) : reqLog[i].ok}

cacheOf(kind) == IF kind = "encode" THEN encImplMods ELSE decImplMods

EarlierSame(i) ==
  {j \in Completed : /\ j < i
                     /\ reqLog[j].kind = reqLog[i].kind
                     /\ reqLog[j].type = reqLog[i].type}

(* C3: module cache.  Among the requests that ran to the end, the first    *)
(* one of a kind for a type generates one module and stores it under the   *)
(* type, every later one of that kind for that type generates nothing and  *)
(* references that module, requests of different types or of different     *)
(* kinds never have the same module, and every request emits exactly one   *)
(* new instantiation, of the module it references.                         *)
C3_ModuleCache ==
  /\ \A i \in Completed :
       /\ EarlierSame(i) = {} =>
            /\ reqLog[i].generated = 1
            /\ reqLog[i].mod \in 1..Len(topMod)
            /\ \E e \in 1..Len(cacheOf(reqLog[i].kind)) :
                 /\ cacheOf(reqLog[i].kind)[e].key = reqLog[i].type
                 /\ cacheOf(reqLog[i].kind)[e].mod = reqLog[i].mod
       /\ EarlierSame(i) # {} =>
            /\ reqLog[i].generated = 0
            /\ \A j \in EarlierSame(i) : reqLog[j].mod = reqLog[i].mod
       /\ \A j \in Completed :
            (reqLog[j].type # reqLog[i].type \/ reqLog[j].kind # reqLog[i].kind)
              => reqLog[j].mod # reqLog[i].mod
       /\ reqLog[i].inst \in 1..Len(insts)
       /\ insts[reqLog[i].inst].moduleName = topMod[reqLog[i].mod].name
       /\ \A j \in Completed : j # i => reqLog[j].inst # reqLog[i].inst
  /\ Len(insts) = Cardinality(Completed)
  /\ Len(encImplMods) + Len(decImplMods)
       = Cardinality({<<reqLog[i].kind, reqLog[i].type>> : i \in Completed})

C3_Witness ==
  /\ Len(reqLog) = 3
  /\ Completed = 1..3
  /\ reqLog[1].kind = reqLog[2].kind /\ reqLog[1].type = reqLog[2].type
  /\ ~reqLog[1].hit /\ reqLog[2].hit
  /\ reqLog[3].type # reqLog[1].type

(* C4: unsupported-type rejection in the build path.  A request for a      *)
(* type for which isSupported() is false fails before any schema text is   *)
(* written, and no module is generated or stored in a cache.               *)
C4_UnsupportedRejected ==
  \A i \in 1..Len(reqLog) :
    ~Supported(reqLog[i].type) =>
      /\ ~reqLog[i].ok
      /\ reqLog[i].text = <<>>
      /\ reqLog[i].generated = 0
      /\ \A e \in 1..Len(cacheOf(reqLog[i].kind)) :
           cacheOf(reqLog[i].kind)[e].key # reqLog[i].type

-----------------------------------------------------------------------------
(* Properties of SpecDecoder.                                              *)

(* The compiled schema of each decoder type, and fields of the message on  *)
(* encodedInput as unsigned numbers.                                       *)
SchemaOf == [t \in DecoderTypes |-> getTypeSchema(TypeSchemaImpl(t)).typeSchema]

Field(from, width) == FromBits(SubSeq(sim.encodedInput, from + 1, from + width))

Checked == sim.pc = "clocked" /\ sim.posedge /\ sim.valid = 1

RootAsserts == 1..3

(* C11: at a rising clock edge with valid asserted, a root-pointer         *)
(* assertion fails whenever the root pointer's tag is not 0, or its        *)
(* data-word count or its pointer count differs from the schema's; a root  *)
(* pointer with tag 0, offset 0 and both counts matching fails none.       *)
C11_RootPointerCheck ==
  Checked =>
    /\ (\/ Field(0, 2) # 0
        \/ Field(32, 16) # SchemaOf[sim.type].dataWordCount
        \/ Field(48, 16) # SchemaOf[sim.type].pointerCount)
         => sim.failed \cap RootAsserts # {}
    /\ (/\ Field(0, 2) = 0
        /\ Field(2, 30) = 0
        /\ Field(32, 16) = SchemaOf[sim.type].dataWordCount
        /\ Field(48, 16) = SchemaOf[sim.type].pointerCount)
         => sim.failed \cap RootAsserts = {}

(* A pointer count that differs from the schema's was caught, and only by  *)
(* the pointer-count assertion.                                            *)
C11_Witness ==
  /\ Checked
  /\ Field(48, 16) # SchemaOf[sim.type].pointerCount
  /\ sim.failed \cap RootAsserts = {3}

(* C12: the decoder's assertions are evaluated only at a rising edge of    *)
(* clk at which valid is asserted; otherwise none can fail, whatever the   *)
(* input bits are.                                                         *)
C12_AssertionGating ==
  (sim.pc = "clocked" /\ ~(sim.posedge /\ sim.valid = 1)) => sim.failed = {}

(* A rising edge with valid low and input bits that break an assertion.    *)
C12_Witness ==
  /\ sim.pc = "clocked" /\ sim.posedge /\ sim.valid = 0
  /\ \E i \in 1..Len(sim.asserts) :
       ~ICmpOp(sim.asserts[i].pred, sim.asserts[i].val,
               sim.asserts[i].expectedVal)
  /\ sim.failed = {}

(* The list field of a decoder type: where its pointer is in the message,  *)
(* its declared capacity and its element-size code.                        *)
ListOf(t) == IF t.k = "array" THEN t ELSE t.fs[1].type

ListPointerAt(t) == 64 + (64 * SchemaOf[t].dataWordCount)

ElementSizeCode(e) ==
  IF e.w = 0 THEN 0 ELSE IF e.w = 1 THEN 1 ELSE IF e.w <= 8 THEN 2
  ELSE IF e.w <= 16 THEN 3 ELSE IF e.w <= 32 THEN 4 ELSE 5

ListAsserts == 4..6

(* C13: the list-pointer assertions pass exactly when the pointer's tag is *)
(* 1, its element-size code is the one of the element type, and its        *)
(* length is at most the declared capacity, as an unsigned number.         *)
C13_ListPointerCheck ==
  (Checked /\ sim.type.k # "int") =>
    ((sim.failed \cap ListAsserts = {})
       <=> /\ Field(ListPointerAt(sim.type), 2) = 1
           /\ Field(ListPointerAt(sim.type) + 32, 3)
                = ElementSizeCode(ListOf(sim.type).e)
           /\ Field(ListPointerAt(sim.type) + 35, 29) <= ListOf(sim.type).n)

(* For an array of 4 16-bit integers a message declaring length 5 fails    *)
(* the length assertion.                                                   *)
C13_Witness ==
  /\ Checked
  /\ sim.type = ArrayType(ui16, 4)
  /\ Field(64 + 35, 29) = 5
  /\ sim.failed = {6}

(***************************************************************************)
(* Properties of SpecSegment.                                              *)
(***************************************************************************)

(* The bit interval [offset, offset + width) of an insert.                 *)
IntervalOf(ins) == ins.offset..(ins.offset + getBitWidth(ins.val.type) - 1)

Stored(seg) ==
  {seg.segmentValues[i].start..seg.segmentValues[i].stop :
     i \in 1..Len(seg.segmentValues)}

LastInsert == segment.inserted[Len(segment.inserted)]

(* C14: while no insert has failed, the stored intervals are pairwise      *)
(* disjoint (and one per successful insert) and each lies inside           *)
(* [0, expectedSize); an insert whose interval overlaps a stored interval  *)
(* or reaches past expectedSize fails and leaves the stored intervals as   *)
(* they were.                                                              *)
C14_InsertSafety ==
  segment.pc # "none" =>
    /\ segment.seg.ok =>
         /\ \A i, j \in 1..Len(segment.seg.segmentValues) :
              i # j => (segment.seg.segmentValues[i].start
                          ..segment.seg.segmentValues[i].stop)
                       \cap (segment.seg.segmentValues[j].start
                               ..segment.seg.segmentValues[j].stop) = {}
         /\ \A I \in Stored(segment.seg) :
              I \subseteq 0..(segment.seg.expectedSize - 1)
         /\ Stored(segment.seg) =
              {IntervalOf(segment.inserted[k]) :
                 k \in 1..Len(segment.inserted)}
         /\ Len(segment.seg.segmentValues) = Len(segment.inserted)
    /\ segment.inserted # <<>> =>
         ((\/ \E I \in Stored(LastInsert.before) :
                I \cap IntervalOf(LastInsert) # {}
           \/ ~(IntervalOf(LastInsert)
                  \subseteq 0..(segment.seg.expectedSize - 1)))
            => /\ ~segment.seg.ok
               /\ segment.seg.segmentValues
                    = LastInsert.before.segmentValues)

(* Two inserts went through, and also: a second insert, overlapping the    *)
(* first from inside, failed.                                              *)
C14_Witness ==
  /\ segment.pc = "building"
  /\ Len(segment.inserted) = 2
  /\ ~segment.seg.ok
  /\ Len(segment.seg.segmentValues) = 1
  /\ segment.seg.segmentValues[1].start < LastInsert.offset
  /\ LastInsert.offset <= segment.seg.segmentValues[1].stop

(* The fragments inserted, as a set: what compile() is given, whatever the *)
(* order of the inserts.                                                   *)
Fragments == {[offset |-> segment.inserted[k].offset,
               val |-> segment.inserted[k].val] :
                k \in 1..Len(segment.inserted)}

(* C15: compile() returns exactly expectedSize bits; bit b is the bit of   *)
(* the fragment whose interval contains b, and 0 where no fragment covers  *)
(* b (gaps and the tail); being a function of the set of fragments, the    *)
(* result does not depend on the order of the inserts.                     *)
C15_Compile ==
  segment.pc = "compiled" =>
    /\ segment.compiled.ok
    /\ segment.compiled.val.type
         = ArrayType(SignlessInteger(1), segment.seg.expectedSize)
    /\ Len(segment.compiled.val.bits) = segment.seg.expectedSize
    /\ \A b \in 0..(segment.seg.expectedSize - 1) :
         /\ \A f \in Fragments :
              b \in IntervalOf(f) =>
                segment.compiled.val.bits[b + 1] = f.val.bits[b - f.offset + 1]
         /\ (\A f \in Fragments : b \notin IntervalOf(f)) =>
              segment.compiled.val.bits[b + 1] = 0

(* Two fragments inserted in descending order of offset, with a gap        *)
(* between them and a tail after them, have been compiled.                 *)
C15_Witness ==
  /\ segment.pc = "compiled"
  /\ Len(segment.inserted) = 2
  /\ segment.inserted[1].offset
       > segment.inserted[2].offset
           + getBitWidth(segment.inserted[2].val.type)
  /\ segment.inserted[2].offset > 0
  /\ segment.inserted[1].offset + getBitWidth(segment.inserted[1].val.type)
       < segment.seg.expectedSize
  /\ segment.inserted[1].val.bits # segment.inserted[2].val.bits
  /\ \E b \in 1..Len(segment.compiled.val.bits) :
       segment.compiled.val.bits[b] = 1

(***************************************************************************)
(* Properties of SpecCodec: the pointers in the encoder's message.         *)
(***************************************************************************)

Encoded == codec.pc # "idle" /\ codec.enc.ok

(* The field of width bits at bit from of the encoder's output, as an      *)
(* unsigned number.                                                        *)
Msg(from, width) == FromBits(SubSeq(codec.enc.ret.bits, from + 1, from + width))

EncSchema == codec.enc.self.typeSchema.v

(* The pointer fields of the schema in the order the encoder visits them;  *)
(* the k-th of them has its payload in the k-th allocation after the root  *)
(* pointer's and the struct's.                                             *)
PointerFields == SelectSeq(EncSchema.fields, LAMBDA f : f.type.which = "LIST")

ListPointers ==
  {[p |-> 64 + (64 * EncSchema.dataWordCount) + (64 * PointerFields[k].offset),
    q |-> codec.enc.seg.allocs[k + 2].ptr,
    payloadBits |-> codec.enc.seg.allocs[k + 2].bits,
    mType |-> codec.enc.self.fieldTypes[PointerFields[k].codeOrder + 1].type] :
     k \in 1..Len(PointerFields)}

(* C16: in the encoder's message the root struct pointer has tag 0 in bits *)
(* [1:0], offset 0 in [31:2], the data-word count in [47:32] and the       *)
(* pointer count in [63:48]; every list pointer has tag 1 in [1:0], the    *)
(* offset in (whole) words from the end of the pointer to the payload in   *)
(* [31:2], the element-size code in [34:32] and the element count in       *)
(* [63:35].                                                                *)
C16_PointerWireFormat ==
  Encoded =>
    /\ Msg(0, 2) = 0
    /\ Msg(2, 30) = 0
    /\ Msg(32, 16) = EncSchema.dataWordCount
    /\ Msg(48, 16) = EncSchema.pointerCount
    /\ \A l \in ListPointers :
         /\ Msg(l.p, 2) = 1
         /\ Msg(l.p + 2, 30) = (l.q - l.p - 64) \div 64
         /\ Msg(l.p + 32, 3) = ElementSizeCode(l.mType.e)
         /\ Msg(l.p + 35, 29) = l.mType.n

(* A struct with two list pointers, one of them with a non-zero offset,    *)
(* has been encoded.                                                       *)
C16_Witness ==
  /\ Encoded
  /\ Msg(48, 16) = 2
  /\ \E l \in ListPointers :
       /\ Msg(l.p + 2, 30) = 1
       /\ Msg(l.p + 32, 3) = 2
       /\ Msg(l.p + 35, 29) = 2

(***************************************************************************)
(* Properties of Spec: the scenario of an 8-bit unsigned integer.          *)
(***************************************************************************)

SizedUInt8 == schema # NoObj /\ schema.type = ui8 /\ ret.op = "size"

(* The schema of the object under test has exactly one field, named "i",   *)
(* of capnp type UInt8.                                                    *)
OneFieldIUInt8 ==
  /\ schema.typeSchema.has
  /\ Len(schema.typeSchema.v.fields) = 1
  /\ schema.typeSchema.v.fields[1].name = <<"i">>
  /\ schema.typeSchema.v.fields[1].type.which = "UINT8"

(* C17 as stated: for T = 8-bit unsigned integer the schema has exactly    *)
(* one field named "i" of capnp type UInt8 and size(T) is 64 bits.         *)
C17_UInt8Size64 ==
  SizedUInt8 => (ret.ok /\ OneFieldIUInt8 /\ ret.val = 64)

(* C17: for T = 8-bit unsigned integer the schema has exactly one field    *)
(* named "i" of capnp type UInt8 and size(T) is 128 bits: the word of the  *)
(* root pointer and one data word.                                         *)
C17_UInt8Scenario ==
  SizedUInt8 =>
    /\ ret.ok
    /\ OneFieldIUInt8
    /\ schema.typeSchema.v.dataWordCount = 1
    /\ schema.typeSchema.v.pointerCount = 0
    /\ ret.val = 128

(* size() has returned for the 8-bit unsigned integer.                     *)
C17_Witness == SizedUInt8 /\ ret.ok /\ ret.val > 0

(***************************************************************************)
(* Properties of SpecCache: the shape of the decoder's operand.            *)
(***************************************************************************)

(* size() of each cache type, in bits, where it is defined.                *)
SizeOf == [t \in CacheTypes |-> TypeSchemaImpl_size(TypeSchemaImpl(t))]

(* Request i is a buildDecoder request for a type with a size, and its     *)
(* operand is not a bit array of exactly that many bits.                   *)
ShapeMismatch(i) ==
  /\ reqLog[i].kind = "decode"
  /\ SizeOf[reqLog[i].type].ok
  /\ reqLog[i].operandType
       # ArrayType(SignlessInteger(1), SizeOf[reqLog[i].type].val)

(* C18: shape mismatch.  Every buildDecoder request whose operand is not   *)
(* a bit array of exactly size(T) bits fails, whether or not the decoder   *)
(* module of T is already cached, and no decoder module is generated,      *)
(* cached or instantiated for it.                                          *)
C18_ShapeMismatchRejected ==
  \A i \in 1..Len(reqLog) :
    ShapeMismatch(i) =>
      /\ ~reqLog[i].ok
      /\ reqLog[i].generated = 0
      /\ reqLog[i].inst = 0
      /\ ~reqLog[i].hit =>
           \A e \in 1..Len(decImplMods) : decImplMods[e].key # reqLog[i].type

(***************************************************************************)
(* Properties of SpecCodec: where the list payloads are.                   *)
(***************************************************************************)

Decoded == codec.pc = "decoded" /\ codec.dec.ok

(* C19: decoder payload location.  For every list field the decoder       *)
(* slices the payload at bit P + 64 + 64 * r, P being the list pointer's   *)
(* bit offset from the root of the message and r its offset field in       *)
(* words; on the encoder's message that is the bit offset at which the     *)
(* encoder placed the payload, also for a struct with several list fields. *)
C19_DecoderPayloadLocation ==
  (Decoded /\ Supported(codec.type)) =>
    \A k \in 1..Len(codec.dec.lists) :
      /\ codec.dec.lists[k].listOffset
           = codec.dec.lists[k].ptrOffset + 64
               + (64 * codec.dec.lists[k].offset)
      /\ \E l \in ListPointers :
           /\ l.p = codec.dec.lists[k].ptrOffset
           /\ l.q = codec.dec.lists[k].listOffset

(* C20: encoder list pointers are exact.  For every list pointer the       *)
(* encoder writes at bit p with its payload allocated at bit q, q is a     *)
(* multiple of 64 and q = p + 64 + 64 * (the pointer's offset field), for  *)
(* every supported type, structs with several array fields whose payloads  *)
(* are not multiples of 64 bits included.                                  *)
C20_EncoderListPointersExact ==
  (Encoded /\ Supported(codec.type)) =>
    \A l \in ListPointers :
      /\ l.q % 64 = 0
      /\ l.q = l.p + 64 + (64 * Msg(l.p + 2, 30))

(***************************************************************************)
(* Properties of SpecCodec: the order of list elements.                    *)
(***************************************************************************)

(* Element k (index 0 in the low bits) of an array value, as its bits.     *)
ElementOf(v, k) ==
  SubSeq(v.bits, (k * getBitWidth(v.type.e)) + 1,
         (k + 1) * getBitWidth(v.type.e))

(* The low width bits of payload slot s of list l in the encoder's         *)
(* message, slot 0 being at the lowest payload address.                    *)
PayloadSlot(l, s, width) ==
  SubSeq(codec.enc.ret.bits,
         l.q + (s * (l.payloadBits \div l.mType.n)) + 1,
         l.q + (s * (l.payloadBits \div l.mType.n)) + width)

(* The payload slot into which buildList puts input element k of n.        *)
SlotOfElement(k, n) == n - k - 1

(* C21: decoder list paths agree on element order.  For an array of        *)
(* integers, the decoded element at index k comes from the payload slot    *)
(* into which the encoder put input element k, whether the decoder         *)
(* returns the bit-cast payload directly or rebuilds the array element by  *)
(* element.                                                                *)
C21_ListPathsAgree ==
  (Decoded /\ codec.type.k = "array" /\ codec.type.e.k = "int") =>
    \A l \in ListPointers :
      \A k \in 0..(codec.type.n - 1) :
        /\ PayloadSlot(l, SlotOfElement(k, codec.type.n), codec.type.e.w)
             = ElementOf(codec.operand, k)
        /\ ElementOf(codec.dec.ret, k)
             = PayloadSlot(l, SlotOfElement(k, codec.type.n), codec.type.e.w)

(***************************************************************************)
(* Properties of SpecCodec: where the encoder puts the fields.             *)
(***************************************************************************)

(* The types whose arrays have integer elements.                           *)
IntegerElements(t) ==
  /\ t.k = "array" => t.e.k = "int"
  /\ t.k = "struct" =>
       \A i \in 1..Len(t.fs) : t.fs[i].type.k = "array" => t.fs[i].type.e.k = "int"

(* The value stored by the encoder at exactly the interval                 *)
(* [start, start + width), if there is one.                                *)
StoredAt(start, width) ==
  {codec.enc.seg.segmentValues[i].val.bits :
     i \in {j \in 1..Len(codec.enc.seg.segmentValues) :
              /\ codec.enc.seg.segmentValues[j].start = start
              /\ codec.enc.seg.segmentValues[j].stop = start + width - 1}}

(* Per field of the schema: the capnp slot it occupies in the struct, and  *)
(* the hardware value encoded.                                             *)
FieldSlots ==
  {[start |-> IF f.type.which = "LIST"
                THEN 64 + (64 * EncSchema.dataWordCount) + (64 * f.offset)
              ELSE 64 + (f.offset * bits(f.type)),
    bits |-> bits(f.type),
    codeOrder |-> f.codeOrder,
    ground |-> f.type.which # "LIST",
    val |-> encoderFieldValues(codec.enc.self, codec.operand)[f.codeOrder + 1]] :
     f \in {EncSchema.fields[i] : i \in 1..Len(EncSchema.fields)}}

(* C22: field placement.  With the root pointer at bits [0, 64) and the    *)
(* data section right after it, a ground field with slot offset o and      *)
(* capnp width w is inserted at bit 64 + o * w, the pointer of a list      *)
(* field with pointer-slot offset o is written at bit                      *)
(* 64 + 64 * dataWordCount + 64 * o, and the slots of distinct fields do   *)
(* not overlap.                                                            *)
C22_FieldPlacement ==
  (codec.pc # "idle" /\ IntegerElements(codec.type)) =>
    /\ codec.enc.ok
    /\ StoredAt(0, 64) # {}
    /\ codec.enc.seg.allocs[2].ptr = 64
    /\ \A f \in FieldSlots :
         /\ f.ground => StoredAt(f.start, getBitWidth(f.val.type))
                          = {f.val.bits}
         /\ ~f.ground => StoredAt(f.start, 64) # {}
    /\ \A f, g \in FieldSlots :
         f.codeOrder # g.codeOrder =>
           (f.start..(f.start + f.bits - 1))
             \cap (g.start..(g.start + g.bits - 1)) = {}

(* A struct with a non-zero ground field in its data word and a list       *)
(* pointer behind the data word has been encoded.                          *)
C22_Witness ==
  /\ Encoded
  /\ codec.type.k = "struct"
  /\ \E f \in FieldSlots :
       f.ground /\ f.start = 64 /\ \E b \in 1..Len(f.val.bits) : f.val.bits[b] = 1
  /\ \E f \in FieldSlots : ~f.ground /\ f.start = 128

(***************************************************************************)
(* Properties of SpecAlloc.                                                *)
(***************************************************************************)

RECURSIVE AllocatedBefore(_, _)
AllocatedBefore(allocs, k) ==
  IF k <= 1 THEN 0 ELSE allocs[k - 1].bits + AllocatedBefore(allocs, k - 1)

(* C23: bump allocation.  The k-th alloc on a fresh segment returns the    *)
(* sum of the bit counts of the earlier calls (0 for the first), so the    *)
(* regions are contiguous, disjoint and in increasing address order; a     *)
(* list payload is allocated at the end of the extent allocated so far.    *)
C23_BumpAllocation ==
  segment.pc # "none" =>
    /\ \A k \in 1..Len(segment.seg.allocs) :
         segment.seg.allocs[k].ptr = AllocatedBefore(segment.seg.allocs, k)
    /\ \A k \in 1..(Len(segment.seg.allocs) - 1) :
         segment.seg.allocs[k + 1].ptr
           = segment.seg.allocs[k].ptr + segment.seg.allocs[k].bits
    /\ segment.seg.messageSize
         = AllocatedBefore(segment.seg.allocs, Len(segment.seg.allocs) + 1)
    /\ \A i \in 1..Len(segment.lists) :
         segment.lists[i].listOffset
           = AllocatedBefore(segment.lists[i].before.allocs,
                             Len(segment.lists[i].before.allocs) + 1)

(* Three allocations, the last one of a list payload that starts at a bit  *)
(* that is not a multiple of 64.                                           *)
C23_Witness ==
  /\ segment.pc = "building"
  /\ Len(segment.seg.allocs) = 3
  /\ segment.lists # <<>>
  /\ segment.lists[Len(segment.lists)].listOffset = segment.seg.allocs[3].ptr
  /\ segment.seg.allocs[3].ptr % 64 # 0

(***************************************************************************)
(* Properties of SpecCodec: the decoder's assertions on the encoder's      *)
(* message.                                                                *)
(***************************************************************************)

(* C24: encoder output is accepted by the decoder.  For every type whose   *)
(* arrays have integer elements and every input value, the decoder built   *)
(* for the type and driven with the encoder's output has its three root    *)
(* assertions and three assertions per list field, none of which fails;    *)
(* the length in each list pointer is the declared capacity.               *)
C24_EncoderOutputAccepted ==
  (codec.pc = "decoded" /\ IntegerElements(codec.type)) =>
    /\ codec.dec.ok
    /\ Len(codec.dec.asserts) = 3 + (3 * Cardinality(ListPointers))
    /\ \A i \in 1..Len(codec.dec.asserts) :
         AssertionHolds(codec.dec.asserts[i])
    /\ \A l \in ListPointers : Msg(l.p + 35, 29) = l.mType.n

(* The decoder of a struct with two list fields has been driven with the   *)
(* encoder's output: nine assertions.                                      *)
C24_Witness ==
  /\ Decoded
  /\ Cardinality(ListPointers) = 2
  /\ Len(codec.dec.asserts) = 9

(***************************************************************************)
(* SpecThreads: TypeSchema::buildEncoder and TypeSchema::buildDecoder run  *)
(* by several threads, each request in four steps: the lookup in the       *)
(* cache, the build of the implementation module on a miss, the store      *)
(* into the cache, and the creation of the instance.  The code takes no    *)
(* lock, so the steps of different threads interleave freely.              *)
(***************************************************************************)

ThreadTypes == {i8, ArrayType(ui8, 2)}

Kinds == {"encode", "decode"}

(* modName in TypeSchemaImpl::buildEncoder and buildDecoder.               *)
modName(kind, t) == <<kind>> \o name(TypeSchemaImpl(t)).val

(* DenseMap::operator[] followed by the assignment of mod.                 *)
store(map, key, mod) ==
  IF \E i \in 1..Len(map) : map[i].key = key
    THEN [i \in 1..Len(map) |->
            IF map[i].key = key THEN [key |-> key, mod |-> mod] ELSE map[i]]
  ELSE Append(map, [key |-> key, mod |-> mod])

(* auto encImplIT = encImplMods.find(getType()), and the else branch.      *)
Find(i, kind, t) ==
  /\ threads[i].pc = "idle"
  /\ LET found(implIT) ==
           threads' = [threads EXCEPT ![i] =
                         [pc |-> IF implIT.has THEN "instantiate" ELSE "build",
                          kind |-> kind, type |-> t,
                          mod |-> IF implIT.has THEN implIT.v ELSE 0]]
     IN  found(find(IF kind = "encode" THEN encImplMods ELSE decImplMods, t))
  /\ UNCHANGED <<schemaVars, typeIDVars, cacheVars, codecVars, simVars,
                 segVars, gasketVars>>

(* encImplMod = s->buildEncoder(clk, valid, operand)                       *)
Build(i) ==
  /\ threads[i].pc = "build"
  /\ topMod' = Append(topMod, [name |-> modName(threads[i].kind,
                                                threads[i].type),
                               resTypes |-> <<threads[i].type>>])
  /\ threads' = [threads EXCEPT ![i].pc = "store",
                                ![i].mod = Len(topMod) + 1]
  /\ UNCHANGED <<schemaVars, typeIDVars, codecVars, simVars, segVars,
                 encImplMods, decImplMods, insts, os, reqLog, crashed,
               gasketVars>>

(* encImplMods[getType()] = encImplMod                                     *)
Store(i) ==
  /\ threads[i].pc = "store"
  /\ IF threads[i].kind = "encode"
       THEN /\ encImplMods' = store(encImplMods, threads[i].type,
                                    threads[i].mod)
            /\ UNCHANGED decImplMods
     ELSE /\ decImplMods' = store(decImplMods, threads[i].type,
                                  threads[i].mod)
          /\ UNCHANGED encImplMods
  /\ threads' = [threads EXCEPT ![i].pc = "instantiate"]
  /\ UNCHANGED <<schemaVars, typeIDVars, codecVars, simVars, segVars,
                 topMod, insts, os, reqLog, crashed, gasketVars>>

(* builder.create<rtl::InstanceOp>(...)                                    *)
Instantiate(i) ==
  /\ threads[i].pc = "instantiate"
  /\ insts' = Append(insts,
                     instantiate(threads[i].kind,
                                 name(TypeSchemaImpl(threads[i].type)),
                                 threads[i].mod, topMod))
  /\ threads' = [threads EXCEPT ![i].pc = "done"]
  /\ UNCHANGED <<schemaVars, typeIDVars, codecVars, simVars, segVars,
                 encImplMods, decImplMods, topMod, os, reqLog, crashed,
               gasketVars>>

NextThreads ==
  \E i \in 1..MaxThreads :
    \/ \E kind \in Kinds, t \in ThreadTypes : Find(i, kind, t)
    \/ Build(i)
    \/ Store(i)
    \/ Instantiate(i)

SpecThreads == Init /\ [][NextThreads]_vars

(***************************************************************************)
(* Properties of SpecThreads.                                              *)
(***************************************************************************)

(* The implementation modules generated for a type and a kind.             *)
Generated(kind, t) ==
  {m \in 1..Len(topMod) :
     topMod[m].name = modName(kind, t) /\ topMod[m].resTypes = <<t>>}

(* C25: concurrent cache use.  When several requests for the same type     *)
(* and kind run concurrently, lookup, build and store being separate       *)
(* steps, at most one implementation module is generated for the type and  *)
(* the instances of all the requests reference that module, under every    *)
(* interleaving.                                                           *)
C25_ConcurrentCacheUse ==
  /\ \A kind \in Kinds, t \in ThreadTypes :
       Cardinality(Generated(kind, t)) <= 1
  /\ \A i, j \in 1..MaxThreads :
       (/\ threads[i].pc = "done" /\ threads[j].pc = "done"
        /\ threads[i].kind = threads[j].kind
        /\ threads[i].type = threads[j].type)
         => threads[i].mod = threads[j].mod

(***************************************************************************)
(* SpecSites: buildEncoder and buildDecoder requests whose operands are    *)
(* defined in different top-level modules (mlir::ModuleOp) of one process. *)
(* The implementation module is created at the end of the top-level        *)
(* module of the operand; the instance is created at the use site, in the  *)
(* same top-level module.  A module and an instance carry the top-level    *)
(* module they are in (top).                                               *)
(***************************************************************************)

Sites == {"top1", "top2"}

(* TypeSchema::buildEncoder / buildDecoder for an operand defined in the   *)
(* top-level module site; the types are ones whose modules build.          *)
BuildAt(site, kind, t) ==
  /\ Len(reqLog) < MaxRequests
  /\ LET cache == IF kind = "encode" THEN encImplMods ELSE decImplMods
         implIT == find(cache, t)
         mod == IF implIT.has THEN implIT.v ELSE Len(topMod) + 1
     IN  /\ topMod' = IF implIT.has THEN topMod
                      ELSE Append(topMod, [name |-> modName(kind, t),
                                           resTypes |-> <<t>>, top |-> site])
         /\ encImplMods' = IF kind = "encode" /\ ~implIT.has
                             THEN store(encImplMods, t, mod) ELSE encImplMods
         /\ decImplMods' = IF kind = "decode" /\ ~implIT.has
                             THEN store(decImplMods, t, mod) ELSE decImplMods
         /\ insts' = Append(insts,
                            [instName |-> <<kind>>
                                            \o name(TypeSchemaImpl(t)).val
                                            \o <<"Inst">>,
                             moduleName |-> topMod'[mod].name,
                             resTypes |-> topMod'[mod].resTypes,
                             top |-> site])
         /\ reqLog' = Append(reqLog, [kind |-> kind, type |-> t, site |-> site,
                                      hit |-> implIT.has, mod |-> mod])
  /\ UNCHANGED <<schemaVars, typeIDVars, codecVars, simVars, segVars,
                 threadVars, os, crashed, gasketVars>>

NextSites == \E site \in Sites, kind \in Kinds, t \in ThreadTypes :
               BuildAt(site, kind, t)

SpecSites == Init /\ [][NextSites]_vars

(***************************************************************************)
(* Properties of SpecSites.                                                *)
(***************************************************************************)

(* C26: cached modules stay reachable.  After any sequence of requests,    *)
(* from use sites in different top-level modules too, the implementation   *)
(* module each instance references exists in the top-level module that     *)
(* contains the instance.                                                  *)
C26_CachedModulesReachable ==
  \A i \in 1..Len(insts) :
    \E m \in 1..Len(topMod) :
      /\ topMod[m].name = insts[i].moduleName
      /\ topMod[m].top = insts[i].top

(***************************************************************************)
(* Properties of SpecCodec: the decoder's output.                          *)
(***************************************************************************)

(* The slot in the encoder's message of the field with code order c.       *)
SlotOfField(c) == CHOOSE f \in FieldSlots : f.codeOrder = c

(* The pointers decodeList has read, in the order of the list fields.      *)
ListFieldOrders ==
  SelectSeq([k \in 1..Len(codec.enc.self.fieldTypes) |-> k - 1],
            LAMBDA c : ~SlotOfField(c).ground)

(* C27: decoder reassembly order.  For a struct type with n fields the     *)
(* struct_create of the decoder has n operands, operand k being the value  *)
(* decoded for the field with code order k, of type fieldTypes[k]: a       *)
(* ground field is read from that field's slot of the message and a list   *)
(* field through that field's pointer.  For an integer or an array the     *)
(* output is the one decoded field value.                                  *)
C27_ReassemblyOrder ==
  (Decoded /\ IntegerElements(codec.type)) =>
    /\ Len(codec.dec.fieldValues) = Len(codec.enc.self.fieldTypes)
    /\ \A k \in 1..Len(codec.dec.fieldValues) :
         /\ codec.dec.fieldValues[k].type = codec.enc.self.fieldTypes[k].type
         /\ SlotOfField(k - 1).ground =>
              codec.dec.fieldValues[k].bits
                = SubSeq(codec.enc.ret.bits, SlotOfField(k - 1).start + 1,
                         SlotOfField(k - 1).start
                           + getBitWidth(codec.enc.self.fieldTypes[k].type))
    /\ Len(codec.dec.lists) = Len(ListFieldOrders)
    /\ \A j \in 1..Len(codec.dec.lists) :
         codec.dec.lists[j].ptrOffset = SlotOfField(ListFieldOrders[j]).start
    /\ codec.dec.ret.type = codec.type
    /\ IF codec.type.k = "struct"
         THEN /\ Len(codec.dec.fieldValues) = Len(codec.type.fs)
              /\ \A k \in 1..Len(codec.type.fs) :
                   StructExtractOp(codec.dec.ret, k).bits
                     = codec.dec.fieldValues[k].bits
       ELSE /\ Len(codec.dec.fieldValues) = 1
            /\ codec.dec.ret.bits = codec.dec.fieldValues[1].bits

(* A struct of two fields of different types and values has been decoded.  *)
C27_Witness ==
  /\ Decoded
  /\ codec.type.k = "struct"
  /\ Len(codec.dec.fieldValues) = 2
  /\ codec.dec.fieldValues[1].type # codec.dec.fieldValues[2].type
  /\ codec.dec.fieldValues[1].type.k = "int"
  /\ codec.dec.fieldValues[2].type.k = "int"
  /\ \E b \in 1..Len(codec.dec.fieldValues[1].bits) :
       codec.dec.fieldValues[1].bits[b] = 1

(***************************************************************************)
(* SpecEncoder: an encoder module in simulation, in two runs side by side  *)
(* that are given the same unencodedInput and their own clk and valid.     *)
(***************************************************************************)

EncoderTypes ==
  {ui8, ArrayType(ui8, 2),
   StructType(<<FieldInfo(<<"a">>, ui8), FieldInfo(<<"b", "b">>, si12)>>)}

(* An encoder whose output is forced to zero while valid is low.           *)
encodeModule_gated(self, clk, valid, unencodedInput) ==
  LET gate(encoded) ==
        IF valid = 1 THEN encoded
        ELSE Value(encoded.type, [i \in 1..Len(encoded.bits) |-> 0])
  IN  gate(TypeSchemaImpl_buildEncoder(self, unencodedInput).ret)

(* The body of the module TypeSchemaImpl::buildEncoder generates, as the   *)
(* value of its output for the values of its three arguments: the block    *)
(* arguments clk and valid are fetched and used by no operation.           *)
encodeModule(self, clk, valid, unencodedInput) ==
  TypeSchemaImpl_buildEncoder(self, unencodedInput).ret

BuildEncoderModule(t) ==
  /\ sim.pc = "unbuilt"
  /\ sim' = [pc |-> "encoder", type |-> t]
  /\ UNCHANGED <<schemaVars, typeIDVars, cacheVars, codecVars, segVars,
                 threadVars, gasketVars>>

(* One point in time of both runs.                                         *)
DriveEncoder(t, unencodedInput, clkA, validA, clkB, validB) ==
  /\ sim.pc \in {"encoder", "encoding"}
  /\ sim.type = t
  /\ sim' = [pc |-> "encoding", type |-> t,
             unencodedInput |-> unencodedInput,
             runA |-> [clk |-> clkA, valid |-> validA,
                       encoded |-> encodeModule(TypeSchemaImpl(t), clkA,
                                                validA, unencodedInput)],
             runB |-> [clk |-> clkB, valid |-> validB,
                       encoded |-> encodeModule(TypeSchemaImpl(t), clkB,
                                                validB, unencodedInput)]]
  /\ UNCHANGED <<schemaVars, typeIDVars, cacheVars, codecVars, segVars,
                 threadVars, gasketVars>>

NextEncoder ==
  \/ \E t \in EncoderTypes : BuildEncoderModule(t)
  \/ \E t \in EncoderTypes : \E unencodedInput \in CodecValues(t) :
       \E clkA, validA, clkB, validB \in {0, 1} :
         DriveEncoder(t, unencodedInput, clkA, validA, clkB, validB)

SpecEncoder == Init /\ [][NextEncoder]_vars

(***************************************************************************)
(* Properties of SpecEncoder.                                              *)
(***************************************************************************)

-----------------------------------------------------------------------------
(* SpecSlice: a root Slice over a 16-element array of i1, and a chain of   *)
(* sub-slices taken from it at constant or at dynamic offsets.  gasket.cur *)
(* is the slice last made; gasket.steps records how each slice of the      *)
(* chain was taken.                                                        *)

MaxSlices == 3

SliceRoots ==
  {Value(ArrayType(SignlessInteger(1), 16), [b \in 1..16 |-> b % 2]),
   Value(ArrayType(SignlessInteger(1), 16),
         [b \in 1..16 |-> IF b % 3 = 0 THEN 1 ELSE 0])}

SliceLsbs == 0..2
SliceSizes == {2, 4, 8, 12}

(* Slice root(builder, val)                                                *)
RootSlice(val) ==
  /\ gasket.pc = "none"
  /\ gasket' = [pc |-> "slice", cur |-> Slice(val), steps |-> <<>>]
  /\ UNCHANGED <<schemaVars, typeIDVars, cacheVars, codecVars, simVars,
                 segVars, threadVars>>

(* cur.slice(lsb, size) with a constant lsb                                *)
SliceConst(lsb, size) ==
  /\ gasket.pc = "slice"
  /\ Len(gasket.steps) < MaxSlices
  /\ lsb + size <= gasket.cur.type.n
  /\ gasket' = [gasket EXCEPT
                  !.cur = slice(gasket.cur, lsb, size),
                  !.steps = Append(@, [dynamic |-> FALSE, lsb |-> lsb])]
  /\ UNCHANGED <<schemaVars, typeIDVars, cacheVars, codecVars, simVars,
                 segVars, threadVars>>

(* cur.slice(lsb, size) with lsb a Value of lsbWidth bits, at least as     *)
(* wide as the index of cur                                                *)
SliceDynamic(lsb, lsbWidth, size) ==
  /\ gasket.pc = "slice"
  /\ Len(gasket.steps) < MaxSlices
  /\ lsb + size <= gasket.cur.type.n
  /\ lsbWidth >= Log2_64_Ceil(gasket.cur.type.n)
  /\ LET sub == sliceAtValue(gasket.cur,
                             ConstantOp(SignlessInteger(lsbWidth), lsb), size)
     IN  /\ sub.ok
         /\ gasket' = [gasket EXCEPT
                         !.cur = [type |-> sub.type, bits |-> sub.bits,
                                  parent |-> sub.parent,
                                  offsetIntoParent |-> sub.offsetIntoParent],
                         !.steps = Append(@, [dynamic |-> TRUE, lsb |-> lsb])]
  /\ UNCHANGED <<schemaVars, typeIDVars, cacheVars, codecVars, simVars,
                 segVars, threadVars>>

(* cur.castToSlice(elemTy, size): a new root over the same bits            *)
CastToSlice ==
  /\ gasket.pc = "slice"
  /\ gasket.steps # <<>>
  /\ gasket' = [gasket EXCEPT
                  !.cur = castToSlice(gasket.cur, gasket.cur.type.e,
                                      gasket.cur.type.n),
                  !.steps = <<>>]
  /\ UNCHANGED <<schemaVars, typeIDVars, cacheVars, codecVars, simVars,
                 segVars, threadVars>>

NextSlice ==
  \/ \E val \in SliceRoots : RootSlice(val)
  \/ \E lsb \in SliceLsbs : \E size \in SliceSizes : SliceConst(lsb, size)
  \/ \E lsb \in SliceLsbs : \E lsbWidth \in {2, 3, 4} :
       \E size \in SliceSizes : SliceDynamic(lsb, lsbWidth, size)
  \/ CastToSlice

SpecSlice == Init /\ [][NextSlice]_vars

(***************************************************************************)
(* Properties of SpecSlice.                                                *)
(***************************************************************************)

RECURSIVE SumLsb(_)
SumLsb(steps) ==
  IF steps = <<>> THEN 0 ELSE steps[1].lsb + SumLsb(Tail(steps))

(* C29: getOffsetFromRoot() of a root slice is 0; of a slice reached by a  *)
(* chain of slices all taken at constant offsets it is the sum of those    *)
(* offsets; and it is unknown when some slice of the chain, the slice      *)
(* itself included, was taken at a dynamic offset.  The slice holds the    *)
(* bits of the root from the summed offset on.                             *)
C29_SliceOffsetTracking ==
  gasket.pc = "slice" =>
    /\ getOffsetFromRoot(gasket.cur) =
         IF \E i \in 1..Len(gasket.steps) : gasket.steps[i].dynamic
           THEN None ELSE Some(SumLsb(gasket.steps))
    /\ gasket.cur.bits =
         SubSeq(getRootSlice(gasket.cur).bits, SumLsb(gasket.steps) + 1,
                SumLsb(gasket.steps) + gasket.cur.type.n)

(* A chain constant, dynamic, constant: the offset of the last slice is    *)
(* unknown although it was itself taken at a constant offset, and that of  *)
(* the first slice is its constant offset.                                 *)
C29_Witness ==
  /\ gasket.pc = "slice"
  /\ gasket.steps = <<[dynamic |-> FALSE, lsb |-> 2],
                      [dynamic |-> TRUE, lsb |-> 1],
                      [dynamic |-> FALSE, lsb |-> 2]>>
  /\ getOffsetFromRoot(gasket.cur) = None
  /\ getOffsetFromRoot(gasket.cur.parent.parent) = Some(2)

-----------------------------------------------------------------------------
(* SpecDowncast: a GasketComponent holding an integer, and its downcast to *)
(* an integer type that is no wider.                                       *)

DowncastWidths == {1, 4, 8}

(* Every bit pattern of the narrow sources, and patterns of the widest     *)
(* that differ in the top bit and in the bits around each target width.    *)
DowncastBits(w) ==
  IF w <= 4 THEN [1..w -> {0, 1}]
  ELSE {[b \in 1..w |-> 0], [b \in 1..w |-> 1], [b \in 1..w |-> b % 2],
        [b \in 1..w |-> (b + 1) % 2], [b \in 1..w |-> IF b = w THEN 1 ELSE 0],
        [b \in 1..w |-> IF b = w THEN 0 ELSE 1],
        [b \in 1..w |-> IF b = 4 THEN 0 ELSE 1]}

DowncastSources ==
  UNION {{Value(IntegerType(w, sgn), bs) : bs \in DowncastBits(w)} :
           w \in DowncastWidths, sgn \in Signedness}

(* GasketComponent(builder, val) on an integer value                       *)
NewComponent(val) ==
  /\ gasket.pc = "none"
  /\ gasket' = [pc |-> "component", s |-> val]
  /\ UNCHANGED <<schemaVars, typeIDVars, cacheVars, codecVars, simVars,
                 segVars, threadVars>>

(* s.downcast(t)                                                           *)
Downcast(t) ==
  /\ gasket.pc = "component"
  /\ t.w <= gasket.s.type.w
  /\ gasket' = [pc |-> "downcast", s |-> gasket.s, t |-> t,
                result |-> downcast(gasket.s, t)]
  /\ UNCHANGED <<schemaVars, typeIDVars, cacheVars, codecVars, simVars,
                 segVars, threadVars>>

NextDowncast ==
  \/ \E val \in DowncastSources : NewComponent(val)
  \/ \E w \in 1..8 : \E sgn \in Signedness : Downcast(IntegerType(w, sgn))

SpecDowncast == Init /\ [][NextDowncast]_vars

(***************************************************************************)
(* Properties of SpecDowncast.                                             *)
(***************************************************************************)

(* C30: the downcast of an integer of width W to an integer type of width  *)
(* w, 1 <= w <= W, has the target type and carries the low w bits of the   *)
(* source, whatever the signedness of the target and of the source; for a  *)
(* signed target bit w-1 of the source is the sign bit of the result.      *)
C30_DowncastLowBits ==
  gasket.pc = "downcast" =>
    /\ gasket.result.type = gasket.t
    /\ gasket.result.bits = SubSeq(gasket.s.bits, 1, gasket.t.w)
    /\ gasket.result.bits[gasket.t.w] = gasket.s.bits[gasket.t.w]

(* A signed 8-bit source with its top bit set, downcast to a signed type   *)
(* of 4 bits whose sign bit, bit 3 of the source, is clear.                *)
C30_Witness ==
  /\ gasket.pc = "downcast"
  /\ gasket.s.type = IntegerType(8, "signed")
  /\ gasket.t = IntegerType(4, "signed")
  /\ gasket.s.bits[8] = 1 /\ gasket.s.bits[4] = 0
  /\ gasket.result.bits = <<1, 1, 1, 0>>

====
